---- MODULE Spec2Model ----
(***************************************************************************)
(* Health Signal Processing Core of AyushDhara: the emergency safety       *)
(* layer (lib/safety.ts), the chat request handler (app/api/chat/route.ts),*)
(* the Sentinel anonymisation utilities and the symptom table with its     *)
(* aggregation (lib/dynamodb-utils.ts), and the Prakriti calculator        *)
(* (lib/prakriti-calculator.ts).                                           *)
(*                                                                         *)
(* JavaScript values are tagged records: t is the value's typeof-like tag. *)
(* A string carries its characters as a sequence of one-character strings, *)
(* so that toLowerCase, trim, includes and template concatenation are      *)
(* computed character by character.                                        *)
(***************************************************************************)
EXTENDS Integers, Sequences, FiniteSets, TLC

VARIABLES
  safetyCall,    \* the latest checkEmergencyKeywords call: arguments and outcome
  safetyPrev,    \* language and outcome summary of the call before it
  request,       \* the body of the latest chat request handled by POST
  response,      \* the HTTP response POST produced for it (as serialised)
  consoleWarn,   \* the console.warn stream written by logEmergencyDetection
  HASH_SALT,     \* process.env.HASH_SALT
  anonCall,      \* the latest anonymizeForSentinel call: arguments and outcome
  anonPrev,      \* the anonymizeForSentinel call before it
  validateCall,  \* the latest validateAnonymization call: argument and outcome
  symptoms,      \* the records a region query fetched, in the order it returned them
  aggregation,   \* the fold of aggregateSymptomsByRegion over them, in two orders
  table,         \* the items of the DynamoDB table, by their PK and SK
  aggregateCall, \* the latest aggregateSymptomsByRegion call: arguments and outcome
  quizInput,     \* the arguments a caller passes to calculatePrakriti
  prakritiCall,  \* the call of calculatePrakriti with them: its time and outcome
  prakritiAgain, \* a later call with the same arguments: its time and outcome
  logCall,       \* the latest direct logEmergencyDetection call: its arguments
  tasks,         \* the invocations in progress or finished, one per concurrent caller
  pending,       \* the incrementSymptomCount updates sent and not yet applied by the table
  ledger,        \* the first createSymptom of a run and the increments applied since
  profileCall    \* the latest createPrakriti and getLatestPrakriti calls

symptomVars == <<symptoms, aggregation, table, aggregateCall>>

prakritiVars == <<quizInput, prakritiCall, prakritiAgain>>

flightVars == <<tasks, pending, ledger>>

vars == <<safetyCall, safetyPrev, request, response, consoleWarn,
          HASH_SALT, anonCall, anonPrev, validateCall, symptomVars, prakritiVars, logCall,
          flightVars, profileCall>>

-----------------------------------------------------------------------------
(* JavaScript values *)

Undefined == [t |-> "undefined"]
Null == [t |-> "null"]
Str(chars) == [t |-> "string", v |-> chars]
\* A string that is only ever compared as a whole (a language code, a label)
Key(name) == [t |-> "string", s |-> name]
Arr(items) == [t |-> "array", v |-> items]
Num(n) == [t |-> "number", v |-> n]
NaN == [t |-> "number", nan |-> TRUE]
Bool(b) == [t |-> "boolean", v |-> b]
Obj(fields) == [t |-> "object", v |-> fields]
NativeFunction(name) == [t |-> "function", name |-> name]

\* The length of a SHA-256 digest in hex characters
DigestHexLength == 64

\* createHash('sha256').update(chars).digest('hex'): a string of DigestHexLength
\* hex characters, standing for itself (two digests are equal exactly when
\* their inputs are: the hash is taken to be collision-free)
Sha256Hex(chars) == [t |-> "string", sha256 |-> chars]

\* x.length
LengthOf(x) ==
  IF x.t = "string"
  THEN IF "sha256" \in DOMAIN x THEN Num(DigestHexLength)
       ELSE IF "s" \in DOMAIN x THEN Num(Len(x.s))
       ELSE Num(Len(x.v))
  ELSE Undefined

\* typeof x
TypeOf(x) == IF x.t = "null" THEN "object" ELSE x.t

\* ToBoolean(x), as used by !x, x || y and if (x)
Truthy(x) ==
  CASE x.t = "undefined" -> FALSE
    [] x.t = "null" -> FALSE
    [] x.t = "string" -> LengthOf(x) # Num(0)
    [] x.t = "number" -> x # NaN /\ x.v # 0
    [] x.t = "boolean" -> x.v
    [] OTHER -> TRUE

\* x || y
Or(x, y) == IF Truthy(x) THEN x ELSE y

\* What a function call produced: a returned value or a thrown error.
Return(value) == [kind |-> "return", value |-> value]
Throw(error) == [kind |-> "throw", error |-> error]

\* The members every object literal inherits from Object.prototype.
ObjectPrototype ==
  [constructor |-> NativeFunction("Object"),
   toString |-> NativeFunction("toString"),
   valueOf |-> NativeFunction("valueOf"),
   hasOwnProperty |-> NativeFunction("hasOwnProperty")]

\* obj[key] for an object literal obj: own property, else inherited, else undefined
GetProperty(obj, key) ==
  IF key \in DOMAIN obj THEN obj[key]
  ELSE IF key \in DOMAIN ObjectPrototype THEN ObjectPrototype[key]
  ELSE Undefined

-----------------------------------------------------------------------------
(* String operations *)

ToLowerCaseChar(c) ==
  CASE c = "A" -> "a"
    [] c = "B" -> "b"
    [] c = "C" -> "c"
    [] c = "D" -> "d"
    [] c = "E" -> "e"
    [] c = "F" -> "f"
    [] c = "G" -> "g"
    [] c = "H" -> "h"
    [] c = "I" -> "i"
    [] c = "J" -> "j"
    [] c = "K" -> "k"
    [] c = "L" -> "l"
    [] c = "M" -> "m"
    [] c = "N" -> "n"
    [] c = "O" -> "o"
    [] c = "P" -> "p"
    [] c = "Q" -> "q"
    [] c = "R" -> "r"
    [] c = "S" -> "s"
    [] c = "T" -> "t"
    [] c = "U" -> "u"
    [] c = "V" -> "v"
    [] c = "W" -> "w"
    [] c = "X" -> "x"
    [] c = "Y" -> "y"
    [] c = "Z" -> "z"
    [] OTHER -> c

\* String.prototype.toLowerCase
ToLowerCase(s) == [i \in 1..Len(s) |-> ToLowerCaseChar(s[i])]

IsWhiteSpace(c) == c \in {" ", "\t", "\n"}

RECURSIVE TrimStart(_)
TrimStart(s) ==
  IF s # <<>> /\ IsWhiteSpace(Head(s)) THEN TrimStart(Tail(s)) ELSE s

RECURSIVE TrimEnd(_)
TrimEnd(s) ==
  IF s # <<>> /\ IsWhiteSpace(s[Len(s)]) THEN TrimEnd(SubSeq(s, 1, Len(s) - 1)) ELSE s

\* String.prototype.trim
Trim(s) == TrimEnd(TrimStart(s))

\* String.prototype.includes
Includes(s, k) ==
  \E i \in 0..(Len(s) - Len(k)) : SubSeq(s, i + 1, i + Len(k)) = k

-----------------------------------------------------------------------------
(* lib/safety.ts *)

EMERGENCY_KEYWORDS ==
  << <<"c", "h", "e", "s", "t", " ", "p", "a", "i", "n">>,
     <<"h", "e", "a", "r", "t", " ", "a", "t", "t", "a", "c", "k">>,
     <<"c", "a", "r", "d", "i", "a", "c", " ", "a", "r", "r", "e", "s", "t">>,
     <<"s", "e", "v", "e", "r", "e", " ", "c", "h", "e", "s", "t", " ", "p", "r", "e", "s", "s", "u", "r", "e">>,
     <<"d", "i", "f", "f", "i", "c", "u", "l", "t", "y", " ", "b", "r", "e", "a", "t", "h", "i", "n", "g">>,
     <<"c", "a", "n", "'", "t", " ", "b", "r", "e", "a", "t", "h", "e">>,
     <<"c", "a", "n", "n", "o", "t", " ", "b", "r", "e", "a", "t", "h", "e">>,
     <<"c", "h", "o", "k", "i", "n", "g">>,
     <<"s", "e", "v", "e", "r", "e", " ", "b", "r", "e", "a", "t", "h", "l", "e", "s", "s", "n", "e", "s", "s">>,
     <<"g", "a", "s", "p", "i", "n", "g", " ", "f", "o", "r", " ", "a", "i", "r">>,
     <<"s", "t", "r", "o", "k", "e">>,
     <<"p", "a", "r", "a", "l", "y", "s", "i", "s">>,
     <<"s", "u", "d", "d", "e", "n", " ", "w", "e", "a", "k", "n", "e", "s", "s">>,
     <<"f", "a", "c", "i", "a", "l", " ", "d", "r", "o", "o", "p", "i", "n", "g">>,
     <<"s", "l", "u", "r", "r", "e", "d", " ", "s", "p", "e", "e", "c", "h">>,
     <<"s", "e", "v", "e", "r", "e", " ", "h", "e", "a", "d", "a", "c", "h", "e">>,
     <<"l", "o", "s", "s", " ", "o", "f", " ", "c", "o", "n", "s", "c", "i", "o", "u", "s", "n", "e", "s", "s">>,
     <<"u", "n", "c", "o", "n", "s", "c", "i", "o", "u", "s">>,
     <<"s", "e", "i", "z", "u", "r", "e">>,
     <<"c", "o", "n", "v", "u", "l", "s", "i", "o", "n">>,
     <<"s", "e", "v", "e", "r", "e", " ", "b", "l", "e", "e", "d", "i", "n", "g">>,
     <<"h", "e", "a", "v", "y", " ", "b", "l", "e", "e", "d", "i", "n", "g">>,
     <<"p", "r", "o", "f", "u", "s", "e", " ", "b", "l", "e", "e", "d", "i", "n", "g">>,
     <<"s", "e", "v", "e", "r", "e", " ", "i", "n", "j", "u", "r", "y">>,
     <<"b", "r", "o", "k", "e", "n", " ", "b", "o", "n", "e">>,
     <<"h", "e", "a", "d", " ", "i", "n", "j", "u", "r", "y">>,
     <<"s", "e", "v", "e", "r", "e", " ", "b", "u", "r", "n">>,
     <<"s", "u", "i", "c", "i", "d", "e">>,
     <<"s", "u", "i", "c", "i", "d", "a", "l">>,
     <<"p", "o", "i", "s", "o", "n", "i", "n", "g">>,
     <<"o", "v", "e", "r", "d", "o", "s", "e">>,
     <<"s", "e", "v", "e", "r", "e", " ", "a", "l", "l", "e", "r", "g", "i", "c", " ", "r", "e", "a", "c", "t", "i", "o", "n">>,
     <<"a", "n", "a", "p", "h", "y", "l", "a", "x", "i", "s">>,
     <<"s", "e", "v", "e", "r", "e", " ", "p", "a", "i", "n">>,
     <<"u", "n", "b", "e", "a", "r", "a", "b", "l", "e", " ", "p", "a", "i", "n">> >>

\* The hotline number every advisory names.
HOTLINE == "108"

\* The advisory texts, each as the sequence of its segments; the non-English
\* texts are given by their English meaning, segment for segment.
EMERGENCY_RESPONSES ==
  [en |-> Str(<<"EMERGENCY DETECTED",
                "Your symptoms indicate a potentially life-threatening situation",
                "DO NOT WAIT - ACT NOW:",
                "Call Emergency Services: ", HOTLINE, " (India)",
                "Go to the nearest hospital emergency room immediately",
                "If available, contact your doctor right away",
                "This is a medical emergency. AI guidance cannot replace emergency medical care.",
                "Stay calm and seek help immediately.">>),
   hi |-> Str(<<"[hi] EMERGENCY DETECTED",
                "[hi] Your symptoms indicate a potentially life-threatening situation",
                "[hi] DO NOT WAIT - ACT NOW:",
                "[hi] Call Emergency Services: ", HOTLINE, " ([hi] India)",
                "[hi] Go to the nearest hospital emergency room immediately",
                "[hi] If available, contact your doctor right away",
                "[hi] This is a medical emergency. AI ...",
                "[hi] Stay calm and seek help immediately.">>),
   ta |-> Str(<<"[ta] EMERGENCY DETECTED",
                "[ta] Your symptoms indicate a potentially life-threatening situation",
                "[ta] DO NOT WAIT - ACT NOW:",
                "[ta] Call Emergency Services: ", HOTLINE, " ([ta] India)",
                "[ta] Go to the nearest hospital emergency room immediately",
                "[ta] If available, contact your doctor right away",
                "[ta] This is a medical emergency. AI ...",
                "[ta] Stay calm and seek help immediately.">>),
   te |-> Str(<<"[te] EMERGENCY DETECTED",
                "[te] Your symptoms indicate a potentially life-threatening situation",
                "[te] DO NOT WAIT - ACT NOW:",
                "[te] Call Emergency Services: ", HOTLINE, " ([te] India)",
                "[te] Go to the nearest hospital emergency room immediately",
                "[te] If available, contact your doctor right away",
                "[te] This is a medical emergency. AI ...",
                "[te] Stay calm and seek help immediately.">>),
   bn |-> Str(<<"[bn] EMERGENCY DETECTED",
                "[bn] Your symptoms indicate a potentially life-threatening situation",
                "[bn] DO NOT WAIT - ACT NOW:",
                "[bn] Call Emergency Services: ", HOTLINE, " ([bn] India)",
                "[bn] Go to the nearest hospital emergency room immediately",
                "[bn] If available, contact your doctor right away",
                "[bn] This is a medical emergency. AI ...",
                "[bn] Stay calm and seek help immediately.">>)]

\* checkEmergencyKeywords stopping at the first keyword found
checkEmergencyKeywords_FirstMatchOnly(input, language) ==
  LET lang == IF language.t = "undefined" THEN "en" ELSE language.s
  IN IF ~Truthy(input) \/ TypeOf(input) # "string"
     THEN Return([isEmergency |-> FALSE])
     ELSE LET normalizedInput == Trim(ToLowerCase(input.v))
              Matches(keyword) == Includes(normalizedInput, ToLowerCase(keyword))
              allMatches == SelectSeq(EMERGENCY_KEYWORDS, Matches)
              detectedKeywords == IF allMatches = <<>> THEN <<>> ELSE <<Head(allMatches)>>
          IN IF Len(detectedKeywords) > 0
             THEN Return([isEmergency |-> TRUE,
                          emergencyResponse |->
                            Or(GetProperty(EMERGENCY_RESPONSES, lang), EMERGENCY_RESPONSES.en),
                          detectedKeywords |-> detectedKeywords])
             ELSE Return([isEmergency |-> FALSE])

\* checkEmergencyKeywords guarding with !input alone, without the typeof test
checkEmergencyKeywords_NoTypeGuard(input, language) ==
  LET lang == IF language.t = "undefined" THEN "en" ELSE language.s
  IN IF ~Truthy(input)
     THEN Return([isEmergency |-> FALSE])
     ELSE IF input.t # "string"
     THEN Throw("TypeError: input.toLowerCase is not a function")
     ELSE LET normalizedInput == Trim(ToLowerCase(input.v))
              Matches(keyword) == Includes(normalizedInput, ToLowerCase(keyword))
              detectedKeywords == SelectSeq(EMERGENCY_KEYWORDS, Matches)
          IN IF Len(detectedKeywords) > 0
             THEN Return([isEmergency |-> TRUE,
                          emergencyResponse |->
                            Or(GetProperty(EMERGENCY_RESPONSES, lang), EMERGENCY_RESPONSES.en),
                          detectedKeywords |-> detectedKeywords])
             ELSE Return([isEmergency |-> FALSE])

\* checkEmergencyKeywords composing the advisory from what it detected
checkEmergencyKeywords_ComposedAdvisory(input, language) ==
  LET lang == IF language.t = "undefined" THEN "en" ELSE language.s
  IN IF ~Truthy(input) \/ TypeOf(input) # "string"
     THEN Return([isEmergency |-> FALSE])
     ELSE LET normalizedInput == Trim(ToLowerCase(input.v))
              Matches(keyword) == Includes(normalizedInput, ToLowerCase(keyword))
              detectedKeywords == SelectSeq(EMERGENCY_KEYWORDS, Matches)
              canned == Or(GetProperty(EMERGENCY_RESPONSES, lang), EMERGENCY_RESPONSES.en)
          IN IF Len(detectedKeywords) > 0
             THEN Return([isEmergency |-> TRUE,
                          emergencyResponse |->
                            IF canned.t = "string" /\ Len(detectedKeywords) > 1
                            THEN Str(canned.v \o <<"Several warning signs were detected.">>)
                            ELSE canned,
                          detectedKeywords |-> detectedKeywords])
             ELSE Return([isEmergency |-> FALSE])

\* checkEmergencyKeywords(input, language = 'en')
checkEmergencyKeywords(input, language) ==
  LET lang == IF language.t = "undefined" THEN "en" ELSE language.s
  IN IF ~Truthy(input) \/ TypeOf(input) # "string"
     THEN Return([isEmergency |-> FALSE])
     ELSE IF input.t # "string"
     THEN Throw("TypeError: input.toLowerCase is not a function")
     ELSE LET normalizedInput == Trim(ToLowerCase(input.v))
              Matches(keyword) == Includes(normalizedInput, ToLowerCase(keyword))
              detectedKeywords == SelectSeq(EMERGENCY_KEYWORDS, Matches)
          IN IF Len(detectedKeywords) > 0
             THEN Return([isEmergency |-> TRUE,
                          emergencyResponse |->
                            Or(GetProperty(EMERGENCY_RESPONSES, lang), EMERGENCY_RESPONSES.en),
                          detectedKeywords |-> detectedKeywords])
             ELSE Return([isEmergency |-> FALSE])

-----------------------------------------------------------------------------
(* Inputs of the safety layer *)

\* Most fragments a query text is put together from.
MaxFrags == 2

Fragments ==
  { <<"C", "h", "e", "s", "t", " ", "P", "a", "i", "n">>,
    <<"S", "T", "R", "O", "K", "E", " ">>,
    <<" ", "s", "e", "v", "e", "r", "e", " ">>,
    <<"h", "e", "a", "d", "a", "c", "h", "e">> }

RECURSIVE Texts(_)
Texts(n) ==
  IF n = 0 THEN {<<>>}
  ELSE Texts(n - 1) \cup {t \o f : t \in Texts(n - 1), f \in Fragments}

QueryTexts == Texts(MaxFrags) \cup {<<" ">>}

NonStringInputs == {Null, Undefined, Num(0), Num(42), Bool(TRUE), Obj(<<>>)}

SafetyInputs == {Str(t) : t \in QueryTexts} \cup NonStringInputs

SupportedLanguages == {"en", "hi", "ta", "te", "bn"}

LanguageCodes ==
  {Undefined} \cup {Key(l) : l \in SupportedLanguages \cup {"fr", "constructor"}}

NoCall == [kind |-> "none"]

\* What is kept of a call once the next one is made.
SafetySummary(call) ==
  IF call = NoCall THEN NoCall
  ELSE [kind |-> "call", language |-> call.language, outcome |->
          IF call.outcome.kind = "return" /\ call.outcome.value.isEmergency
          THEN [isEmergency |-> TRUE,
                emergencyResponse |-> call.outcome.value.emergencyResponse,
                nKeywords |-> Len(call.outcome.value.detectedKeywords)]
          ELSE [isEmergency |-> FALSE]]

\* Every outcome of checkEmergencyKeywords on the inputs, computed once.
SafetyOutcomes ==
  {[kind |-> "call", input |-> i, language |-> l,
    outcome |-> checkEmergencyKeywords(i, l)] : i \in SafetyInputs, l \in LanguageCodes}

\* A caller invokes checkEmergencyKeywords(input, language).
CheckEmergencyKeywordsCall ==
  /\ \E call \in SafetyOutcomes :
       /\ safetyCall' = call
       /\ safetyPrev' = SafetySummary(safetyCall)
  /\ UNCHANGED <<request, response, consoleWarn, HASH_SALT, anonCall, anonPrev, validateCall,
                 symptomVars, prakritiVars, logCall,
                 flightVars, profileCall>>

-----------------------------------------------------------------------------
(* lib/safety.ts: logEmergencyDetection *)

\* new Date().toISOString(): the time of the call, which no operation reads back
NowISO == Key("<time of the call>")

logEmergencyDetection_RegionAsGiven(detectedKeywords, region) ==
  [label |-> "[EMERGENCY DETECTED]",
   timestamp |-> NowISO,
   keywords |-> detectedKeywords,
   region |-> region]

\* logEmergencyDetection(detectedKeywords, region): the arguments of its one
\* console.warn call
logEmergencyDetection(detectedKeywords, region) ==
  [label |-> "[EMERGENCY DETECTED]",
   timestamp |-> NowISO,
   keywords |-> detectedKeywords,
   region |-> Or(region, Key("unknown"))]

-----------------------------------------------------------------------------
(* app/api/chat/route.ts *)

\* JSON.stringify of an object: members that are undefined or functions are left out
JsonObject(fields) ==
  [k \in {f \in DOMAIN fields : fields[f].t \notin {"undefined", "function"}} |-> fields[k]]

\* NextResponse.json(body, {status})
NextResponseJson(body, status) == [kind |-> "response", status |-> status, body |-> body]

\* body.location?.pincode
LocationPincode(location) ==
  IF location.t \in {"undefined", "null"} THEN Undefined
  ELSE IF "pincode" \in DOMAIN location.v THEN location.v.pincode
  ELSE Undefined

InvalidRequestResponse ==
  NextResponseJson(
    [success |-> FALSE,
     error |-> [code |-> "INVALID_REQUEST", message |-> "userId and query are required"]],
    400)

InternalErrorResponse ==
  NextResponseJson(
    [success |-> FALSE,
     error |-> [code |-> "INTERNAL_ERROR",
                message |-> "An error occurred processing your request"]],
    500)

\* The downstream path: the Bedrock RAG query, for now a placeholder response.
\* confidence is given in hundredths.
RagResponse ==
  NextResponseJson(
    [success |-> TRUE,
     data |-> JsonObject([response |-> Key("This is a placeholder response. Bedrock RAG integration pending."),
                          sources |-> Arr(<<Key("Placeholder")>>),
                          confidence |-> Num(50)])],
    200)

EmergencyResponse(safetyCheck) ==
  NextResponseJson(
    [success |-> TRUE,
     data |-> JsonObject([response |-> safetyCheck.emergencyResponse,
                          sources |-> Arr(<<Key("Emergency Safety Protocol")>>),
                          confidence |-> Num(100),
                          isEmergency |-> Bool(TRUE)])],
    200)

\* safetyCheck.detectedKeywords || []
KeywordsOrEmpty(safetyCheck) ==
  IF "detectedKeywords" \in DOMAIN safetyCheck THEN safetyCheck.detectedKeywords ELSE <<>>

POST_EmergencyCheckFirst(parsed) ==
  IF parsed.kind = "throw" \/ parsed.value.t # "object"
  THEN [response |-> InternalErrorResponse, warned |-> <<>>]
  ELSE LET body == parsed.value.v
           safetyCheck == checkEmergencyKeywords(body.query, body.language)
       IN IF safetyCheck.kind = "throw"
          THEN [response |-> InternalErrorResponse, warned |-> <<>>]
          ELSE IF safetyCheck.value.isEmergency
          THEN [response |-> EmergencyResponse(safetyCheck.value),
                warned |-> <<logEmergencyDetection(
                               KeywordsOrEmpty(safetyCheck.value),
                               LocationPincode(body.location))>>]
          ELSE IF ~Truthy(body.userId) \/ ~Truthy(body.query)
          THEN [response |-> InvalidRequestResponse, warned |-> <<>>]
          ELSE [response |-> RagResponse, warned |-> <<>>]

\* POST(request): the response and what the handler wrote to console.warn.
\* parsed is the outcome of request.json().
POST(parsed) ==
  IF parsed.kind = "throw" \/ parsed.value.t # "object"
  THEN [response |-> InternalErrorResponse, warned |-> <<>>]
  ELSE LET body == parsed.value.v
       IN IF ~Truthy(body.userId) \/ ~Truthy(body.query)
          THEN [response |-> InvalidRequestResponse, warned |-> <<>>]
          ELSE LET safetyCheck == checkEmergencyKeywords(body.query, body.language)
               IN IF safetyCheck.kind = "throw"
                  THEN [response |-> InternalErrorResponse, warned |-> <<>>]
                  ELSE IF safetyCheck.value.isEmergency
                  THEN [response |-> EmergencyResponse(safetyCheck.value),
                        warned |-> <<logEmergencyDetection(
                                       KeywordsOrEmpty(safetyCheck.value),
                                       LocationPincode(body.location))>>]
                  ELSE [response |-> RagResponse, warned |-> <<>>]

\* Most entries of the console.warn stream the model follows.
MaxLog == 2

ChatUserIds == {Undefined, Str(<<>>), Str(<<"u", "1">>)}

ChatQueries ==
  {Undefined, Str(<<>>), Str(<<"h", "e", "a", "d", "a", "c", "h", "e">>), Str(<<"C", "h", "e", "s", "t", " ", "P", "a", "i", "n">>),
   Str(<<"S", "T", "R", "O", "K", "E", " ", "C", "h", "e", "s", "t", " ", "P", "a", "i", "n">>)}

ChatLanguages == {Undefined, Key("en"), Key("hi"), Key("fr"), Key("constructor")}

ChatLocations == {Undefined, Obj([pincode |-> Key("110001"), state |-> Key("Delhi")])}

\* What request.json() yields: a thrown SyntaxError, the JSON value null, or a body
ParsedRequests ==
  {Throw("SyntaxError"), Return(Null)} \cup
  {Return(Obj([userId |-> u, query |-> q, language |-> l, location |-> loc])) :
     u \in ChatUserIds, q \in ChatQueries, l \in ChatLanguages, loc \in ChatLocations}

\* Every request with what POST does for it, computed once.
PostOutcomes == {[parsed |-> r, handled |-> POST(r)] : r \in ParsedRequests}

\* The chat route handles one request.
ChatRequest ==
  /\ \E o \in PostOutcomes :
       /\ Len(consoleWarn) + Len(o.handled.warned) <= MaxLog
       /\ request' = o.parsed
       /\ response' = o.handled.response
       /\ consoleWarn' = consoleWarn \o o.handled.warned
  /\ UNCHANGED <<safetyCall, safetyPrev, HASH_SALT, anonCall, anonPrev, validateCall,
                 symptomVars, prakritiVars, logCall,
                 flightVars, profileCall>>

-----------------------------------------------------------------------------
(* lib/dynamodb-utils.ts: anonymisation for the Sentinel dashboard *)

\* `${x}` for a string or undefined
TemplateChars(x) == IF x.t = "undefined" THEN <<"u", "n", "d", "e", "f", "i", "n", "e", "d">> ELSE x.v

\* The literal the salt parameter falls back to
DEFAULT_SALT == Str(<<"d", "e", "f", "a", "u", "l", "t", "-", "s", "a", "l", "t", "-", "c", "h", "a", "n", "g", "e", "-", "i", "n", "-", "p", "r", "o", "d", "u", "c", "t", "i", "o", "n">>)

\* The salt parameter after its default, process.env.HASH_SALT || '...', applied
EffectiveSalt(salt, env) ==
  IF salt.t = "undefined"
  THEN IF env.t = "string" /\ env # Str(<<>>) THEN env ELSE DEFAULT_SALT
  ELSE salt

\* anonymizeForSentinel hashing the report's timestamp along with the userId
anonymizeForSentinel_HashesTimestamp(report, salt, env) ==
  LET hashedUserId ==
        Sha256Hex(TemplateChars(report.userId) \o TemplateChars(EffectiveSalt(salt, env))
                    \o <<report.timestamp.v>>)
  IN Return([hashedUserId |-> hashedUserId,
             symptomType |-> report.symptomType,
             severity |-> report.severity,
             pincode |-> report.location.v.pincode,
             timestamp |-> report.timestamp])

\* anonymizeForSentinel spreading the report into the record it returns
anonymizeForSentinel_KeepsUserId(report, salt, env) ==
  LET hashedUserId ==
        Sha256Hex(TemplateChars(report.userId) \o TemplateChars(EffectiveSalt(salt, env)))
  IN Return([hashedUserId |-> hashedUserId,
             userId |-> report.userId,
             symptomType |-> report.symptomType,
             severity |-> report.severity,
             pincode |-> report.location.v.pincode,
             timestamp |-> report.timestamp])

anonymizeForSentinel_SpreadsReport(report, salt, env) ==
  LET hashedUserId ==
        Sha256Hex(TemplateChars(report.userId) \o TemplateChars(EffectiveSalt(salt, env)))
      own == [hashedUserId |-> hashedUserId,
              symptomType |-> report.symptomType,
              severity |-> report.severity,
              pincode |-> report.location.v.pincode,
              timestamp |-> report.timestamp]
  IN Return([k \in DOMAIN report \cup DOMAIN own |->
               IF k \in DOMAIN own THEN own[k] ELSE report[k]])

\* anonymizeForSentinel(report, salt = process.env.HASH_SALT || '...')
anonymizeForSentinel(report, salt, env) ==
  LET hashedUserId ==
        Sha256Hex(TemplateChars(report.userId) \o TemplateChars(EffectiveSalt(salt, env)))
  IN Return([hashedUserId |-> hashedUserId,
             symptomType |-> report.symptomType,
             severity |-> report.severity,
             pincode |-> report.location.v.pincode,
             timestamp |-> report.timestamp])

\* The list of forbidden fields without 'address'
piiFields_WithoutAddress == <<"name", "phone", "email", "fullAddress">>

piiFields == <<"name", "phone", "email", "fullAddress", "address">>

\* data.userId
UserIdOf(data) == IF "userId" \in DOMAIN data THEN data.userId ELSE Undefined

\* validateAnonymization(data)
validateAnonymization(data) ==
  LET found == SelectSeq(piiFields, LAMBDA field : field \in DOMAIN data)
  IN IF found # <<>>
     THEN Throw([name |-> "Error",
                 message |-> <<"PII field '", Head(found),
                               "' detected in anonymized data. DPDP Act 2023 violation.">>])
     ELSE IF Truthy(UserIdOf(data)) /\ LengthOf(UserIdOf(data)) # Num(DigestHexLength)
     THEN Throw([name |-> "Error",
                 message |-> <<"userId must be hashed before storage in public health database">>])
     ELSE Return(Bool(TRUE))

-----------------------------------------------------------------------------
(* Inputs of the anonymisation utilities *)

UserIds == {Str(<<"a">>), Str(<<"a", "b">>), Str(<<"b">>)}

SaltArguments == {Undefined, Str(<<>>), Str(<<"b">>), Str(<<"k">>)}

\* process.env.HASH_SALT: unset, set to the empty string, or set to a secret
ConfiguredSalts == {Undefined, Str(<<>>), Str(<<"k">>)}

\* symptomType, severity, location and timestamp of a report
Observations ==
  { [symptomType |-> Key("fever"), severity |-> Key("low"), timestamp |-> Num(1),
     location |-> Obj([pincode |-> Key("110001"), state |-> Key("Delhi")])],
    [symptomType |-> Key("cough"), severity |-> Key("high"), timestamp |-> Num(2),
     location |-> Obj([pincode |-> Key("560001"), state |-> Key("Karnataka")])],
    [symptomType |-> Key("fever"), severity |-> Key("medium"), timestamp |-> Num(2),
     location |-> Obj([pincode |-> Key("110001"), state |-> Key("Delhi")])] }

PersonalData ==
  [name |-> Key("Asha Rao"), phone |-> Key("+91 98765 43210"),
   email |-> Key("asha@example.org"), fullAddress |-> Key("12 MG Road, Bengaluru"),
   address |-> Key("12 MG Road")]

\* The optional personal fields a raw report may carry
ReportExtras == {{}, {"name"}, {"fullAddress"}, {"name", "phone", "email", "fullAddress"}}

\* f and g put together; g's members win
Merge(f, g) == [k \in DOMAIN f \cup DOMAIN g |-> IF k \in DOMAIN g THEN g[k] ELSE f[k]]

Restrict(f, keys) == [k \in keys |-> f[k]]

RawReports ==
  {Merge(Merge(o, [userId |-> u]), Restrict(PersonalData, extras)) :
     o \in Observations, u \in UserIds, extras \in ReportExtras}

\* What is kept of an anonymizeForSentinel call for comparison with a later one
AnonSummary(call) ==
  IF call = NoCall THEN NoCall
  ELSE [kind |-> "call", userId |-> call.report.userId, usedSalt |-> call.usedSalt,
        timestamp |-> call.report.timestamp,
        hashedUserId |-> call.outcome.value.hashedUserId]

\* A caller invokes anonymizeForSentinel(report) or anonymizeForSentinel(report, salt);
\* anonPrev keeps the call before it or any earlier one.
AnonymizeCall ==
  /\ \E report \in RawReports, salt \in SaltArguments :
       anonCall' = [kind |-> "call", report |-> report, salt |-> salt,
                    usedSalt |-> EffectiveSalt(salt, HASH_SALT),
                    outcome |-> anonymizeForSentinel(report, salt, HASH_SALT)]
  /\ anonPrev' \in {anonPrev, AnonSummary(anonCall)}
  /\ UNCHANGED <<safetyCall, safetyPrev, request, response, consoleWarn, HASH_SALT, validateCall,
                 symptomVars, prakritiVars, logCall,
                 flightVars, profileCall>>

\* The values a record offered to validateAnonymization may hold as userId
UserIdValues ==
  {Str(<<>>), Str(<<"a">>), Num(0), Num(12345), Sha256Hex(<<"a", "k">>),
   Str([i \in 1..DigestHexLength |-> "x"])}

AnonymizedRecords ==
  {anonymizeForSentinel(r, s, Undefined).value : r \in RawReports, s \in {Str(<<"k">>)}}

\* Records offered to validateAnonymization: anonymised records, raw reports,
\* and anonymised records with personal fields or a userId put back
ValidateInputs ==
  AnonymizedRecords \cup RawReports \cup
  {Merge(a, Restrict(PersonalData, keys)) :
     a \in {anonymizeForSentinel(r, Str(<<"k">>), Undefined).value :
              r \in {x \in RawReports : x.userId = Str(<<"a">>) /\ DOMAIN x \cap DOMAIN PersonalData = {}}},
     keys \in SUBSET DOMAIN PersonalData} \cup
  {Merge(a, [userId |-> u]) :
     a \in {anonymizeForSentinel(r, Str(<<"k">>), Undefined).value :
              r \in {x \in RawReports : DOMAIN x \cap DOMAIN PersonalData = {}}},
     u \in UserIdValues}

ValidateOutcomes ==
  {[kind |-> "call", data |-> d, outcome |-> validateAnonymization(d)] : d \in ValidateInputs}

\* A caller invokes validateAnonymization(data).
ValidateCall ==
  /\ \E call \in ValidateOutcomes : validateCall' = call
  /\ UNCHANGED <<safetyCall, safetyPrev, request, response, consoleWarn, HASH_SALT,
                 anonCall, anonPrev, symptomVars, prakritiVars, logCall,
                 flightVars, profileCall>>

\* A caller passes the record anonymizeForSentinel returned to
\* validateAnonymization before storing it.
ValidateAnonymizedCall ==
  /\ anonCall # NoCall
  /\ anonCall.outcome.kind = "return"
  /\ validateCall' = [kind |-> "call", data |-> anonCall.outcome.value,
                      outcome |-> validateAnonymization(anonCall.outcome.value)]
  /\ UNCHANGED <<safetyCall, safetyPrev, request, response, consoleWarn, HASH_SALT,
                 anonCall, anonPrev, symptomVars, prakritiVars, logCall,
                 flightVars, profileCall>>

-----------------------------------------------------------------------------
(* lib/dynamodb-utils.ts: the symptom records of a region and their aggregation *)

\* x + y for the operands the aggregation meets: numbers, and undefined for a
\* member the record lacks (ToNumber(undefined) is NaN, and NaN absorbs)
Plus(x, y) ==
  IF x.t = "number" /\ y.t = "number" /\ x # NaN /\ y # NaN THEN Num(x.v + y.v) ELSE NaN

\* The strings the records are keyed and dated by, in ascending code-unit order
SortedStrings == <<"2024-01-01", "2024-01-02", "cough", "fever">>

Rank(name) == CHOOSE i \in 1..Len(SortedStrings) : SortedStrings[i] = name

\* x < y: two strings compare by code units; undefined converts to NaN, which
\* compares false with everything
LessThan(x, y) == x.t = "string" /\ y.t = "string" /\ Rank(x.s) < Rank(y.s)

\* `REGION#${pincode}` and `SYMPTOM#${symptomType}#${date}`: the '#'-separated
\* segments of the key
generateRegionPK(pincode) == <<"REGION", pincode.s>>
generateSymptomSK(symptomType, date) == <<"SYMPTOM", symptomType.s, date.s>>
generateSymptomGSI1PK(symptomType) == <<"SYMPTOM", symptomType.s>>
generateSymptomGSI1SK(date) == <<"DATE", date.s>>

\* The members of an object that are not undefined (marshallOptions.removeUndefinedValues)
RemoveUndefinedValues(fields) ==
  [k \in {n \in DOMAIN fields : fields[n] # Undefined} |-> fields[k]]

PutItem_Appends(tbl, item) == tbl \cup {item}

\* PutCommand: the item replaces whatever the table holds under its PK and SK
PutItem(tbl, item) == {i \in tbl : ~(i.PK = item.PK /\ i.SK = item.SK)} \cup {item}

\* createSymptom(params): the table after the put
createSymptom(tbl, params) ==
  PutItem(tbl, RemoveUndefinedValues(
    [PK |-> generateRegionPK(params.pincode),
     SK |-> generateSymptomSK(params.symptomType, params.date),
     symptomType |-> params.symptomType,
     count |-> params.count,
     severity |-> params.severity,
     date |-> params.date,
     GSI1PK |-> generateSymptomGSI1PK(params.symptomType),
     GSI1SK |-> generateSymptomGSI1SK(params.date)]))

UpdateAdd_FromCreatedCount(tbl, pk, sk, increment) ==
  LET held == {i \in tbl : i.PK = pk /\ i.SK = sk}
      item == IF held = {} THEN [PK |-> pk, SK |-> sk] ELSE CHOOSE i \in held : TRUE
      count == IF ledger.kind = "created" THEN Plus(ledger.params.count, increment) ELSE increment
  IN  PutItem(tbl, [k \in DOMAIN item \cup {"count"} |-> IF k = "count" THEN count ELSE item[k]])

\* UpdateCommand 'ADD #count :increment' on the item with this key: the number
\* is added to the item's count; an item or a count that does not exist yet is
\* created with the increment as its value
UpdateAdd(tbl, pk, sk, increment) ==
  LET held == {i \in tbl : i.PK = pk /\ i.SK = sk}
      item == IF held = {} THEN [PK |-> pk, SK |-> sk] ELSE CHOOSE i \in held : TRUE
      count == IF "count" \in DOMAIN item THEN Plus(item.count, increment) ELSE increment
  IN  PutItem(tbl, [k \in DOMAIN item \cup {"count"} |-> IF k = "count" THEN count ELSE item[k]])

\* incrementSymptomCount(pincode, symptomType, date, incrementBy = 1): the table
\* after the update
incrementSymptomCount(tbl, pincode, symptomType, date, incrementBy) ==
  UpdateAdd(tbl, generateRegionPK(pincode), generateSymptomSK(symptomType, date),
            IF incrementBy = Undefined THEN Num(1) ELSE incrementBy)

\* The position of a sort key among the sort keys of a partition
SortKeyRank(sk) == Rank(sk[2]) * (Len(SortedStrings) + 1) + Rank(sk[3])

\* The items of a set in ascending order of their sort keys
RECURSIVE InSortKeyOrder(_)
InSortKeyOrder(items) ==
  IF items = {} THEN <<>>
  ELSE LET first == CHOOSE i \in items : \A j \in items : SortKeyRank(i.SK) <= SortKeyRank(j.SK)
       IN  <<first>> \o InSortKeyOrder(items \ {first})

\* QueryCommand 'PK = :pk AND begins_with(SK, :sk)' with :sk = 'SYMPTOM#'
QuerySymptoms(tbl, pk) == InSortKeyOrder({i \in tbl : i.PK = pk /\ i.SK[1] = "SYMPTOM"})

\* getSymptomsByRegion(pincode, startDate, endDate)
getSymptomsByRegion(tbl, pincode, startDate, endDate) ==
  LET items == QuerySymptoms(tbl, generateRegionPK(pincode))
      Kept(item) ==
        /\ ~(Truthy(startDate) /\ LessThan(GetProperty(item, "date"), startDate))
        /\ ~(Truthy(endDate) /\ LessThan(endDate, GetProperty(item, "date")))
  IN  IF Truthy(Or(startDate, endDate)) THEN SelectSeq(items, Kept) ELSE items

\* A Map is the sequence of its <<key, value>> entries in insertion order.
MapGet(map, key) ==
  IF \E i \in 1..Len(map) : map[i][1] = key
  THEN map[CHOOSE i \in 1..Len(map) : map[i][1] = key][2]
  ELSE Undefined

MapSet(map, key, value) ==
  IF \E i \in 1..Len(map) : map[i][1] = key
  THEN [i \in 1..Len(map) |-> IF map[i][1] = key THEN <<key, value>> ELSE map[i]]
  ELSE Append(map, <<key, value>>)

NewMap_ModuleLevel == IF aggregateCall.kind = "call" THEN aggregateCall.outcome ELSE <<>>

\* new Map<string, number>(): the accumulator each invocation creates for itself
NewMap == <<>>

\* One round of the loop of aggregateSymptomsByRegion
AggregateSymptom(agg, symptom) ==
  LET current == Or(MapGet(agg, GetProperty(symptom, "symptomType")), Num(0))
  IN  MapSet(agg, GetProperty(symptom, "symptomType"),
             Plus(current, GetProperty(symptom, "count")))

\* The loop of aggregateSymptomsByRegion over the fetched records
RECURSIVE AggregateLoop(_, _)
AggregateLoop(agg, fetched) ==
  IF fetched = <<>> THEN agg
  ELSE AggregateLoop(AggregateSymptom(agg, Head(fetched)), Tail(fetched))

\* aggregateSymptomsByRegion(pincode, date)
aggregateSymptomsByRegion(tbl, pincode, date) ==
  AggregateLoop(NewMap, getSymptomsByRegion(tbl, pincode, date, date))

(* The table under createSymptom, incrementSymptomCount and the aggregation *)

\* The most items the table holds, and the largest count an item reaches
MaxItems == 2
MaxCount == 3

Pincodes == {Key("110001"), Key("560001")}
SymptomTypes == {Key("cough"), Key("fever")}
Dates == {Key("2024-01-01"), Key("2024-01-02")}
Severities == {Key("low")}
Increments == {Undefined, Num(2)}

CreateSymptomParams ==
  [pincode : Pincodes, symptomType : SymptomTypes, count : {Num(n) : n \in 1..MaxCount},
   severity : Severities, date : Dates]

\* No count in the table exceeds MaxCount, and the table holds at most MaxItems items
WithinBounds(tbl) ==
  /\ Cardinality(tbl) <= MaxItems
  /\ \A i \in tbl : i.count.v <= MaxCount

\* aggregateCall describes the table as it stands: a write starts a new epoch
CreateSymptomCall ==
  /\ \E params \in CreateSymptomParams :
       /\ WithinBounds(createSymptom(table, params))
       /\ table' = createSymptom(table, params)
  /\ aggregateCall' = NoCall
  /\ UNCHANGED <<safetyCall, safetyPrev, request, response, consoleWarn, HASH_SALT,
                 anonCall, anonPrev, validateCall, symptoms, aggregation, prakritiVars, logCall,
                 flightVars, profileCall>>

IncrementSymptomCountCall ==
  /\ \E pincode \in Pincodes, symptomType \in SymptomTypes, date \in Dates,
        incrementBy \in Increments :
       /\ WithinBounds(incrementSymptomCount(table, pincode, symptomType, date, incrementBy))
       /\ table' = incrementSymptomCount(table, pincode, symptomType, date, incrementBy)
  /\ aggregateCall' = NoCall
  /\ UNCHANGED <<safetyCall, safetyPrev, request, response, consoleWarn, HASH_SALT,
                 anonCall, anonPrev, validateCall, symptoms, aggregation, prakritiVars, logCall,
                 flightVars, profileCall>>

AggregateSymptomsByRegionCall ==
  /\ \E pincode \in Pincodes, date \in Dates :
       aggregateCall' = [kind |-> "call", pincode |-> pincode, date |-> date,
                         outcome |-> aggregateSymptomsByRegion(table, pincode, date)]
  /\ UNCHANGED <<safetyCall, safetyPrev, request, response, consoleWarn, HASH_SALT,
                 anonCall, anonPrev, validateCall, symptoms, aggregation, table,
                 prakritiVars, logCall,
                 flightVars, profileCall>>

(* The latest write to the table *)

\* The region whose writes are followed
WrittenPincodes == {Key("110001")}

\* createSymptom(params), with the write kept in ledger: its parameters, and
\* whether the table held an item of a higher count under the same key before it
CreateSymptomOverCall ==
  /\ \E params \in {p \in CreateSymptomParams : p.pincode \in WrittenPincodes} :
       /\ WithinBounds(createSymptom(table, params))
       /\ table' = createSymptom(table, params)
       /\ ledger' = [kind |-> "created", params |-> params,
                     replacedHigher |->
                       \E i \in table : /\ i.PK = generateRegionPK(params.pincode)
                                        /\ i.SK = generateSymptomSK(params.symptomType, params.date)
                                        /\ i.count.v > params.count.v]
  /\ aggregateCall' = NoCall
  /\ UNCHANGED <<safetyCall, safetyPrev, request, response, consoleWarn, HASH_SALT,
                 anonCall, anonPrev, validateCall, symptoms, aggregation, prakritiVars, logCall,
                 tasks, pending, profileCall>>

\* incrementSymptomCount(...): the latest write is no longer a createSymptom
IncrementSymptomCountOverCall ==
  /\ \E pincode \in WrittenPincodes, symptomType \in SymptomTypes, date \in Dates,
        incrementBy \in Increments :
       /\ WithinBounds(incrementSymptomCount(table, pincode, symptomType, date, incrementBy))
       /\ table' = incrementSymptomCount(table, pincode, symptomType, date, incrementBy)
  /\ ledger' = [kind |-> "incremented"]
  /\ aggregateCall' = NoCall
  /\ UNCHANGED <<safetyCall, safetyPrev, request, response, consoleWarn, HASH_SALT,
                 anonCall, anonPrev, validateCall, symptoms, aggregation, prakritiVars, logCall,
                 tasks, pending, profileCall>>

(* Concurrent increments of one item *)

\* The most incrementSymptomCount calls made on the item
MaxIncrements == 3

\* A caller invokes incrementSymptomCount(pincode, symptomType, date) or
\* incrementSymptomCount(pincode, symptomType, date, incrementBy) on the created
\* item: the UpdateCommand is built and sent, and the call awaits the answer.
\* ledger keeps the amounts as the callers gave them.
IncrementSymptomCountSend ==
  /\ ledger.kind = "created"
  /\ Len(ledger.amounts) < MaxIncrements
  /\ \E incrementBy \in Increments :
       /\ pending' = Append(pending, [pincode |-> ledger.params.pincode,
                                      symptomType |-> ledger.params.symptomType,
                                      date |-> ledger.params.date,
                                      incrementBy |-> incrementBy])
       /\ ledger' = [ledger EXCEPT !.amounts = Append(@, incrementBy)]
  /\ UNCHANGED <<safetyCall, safetyPrev, request, response, consoleWarn, HASH_SALT,
                 anonCall, anonPrev, validateCall, symptomVars, prakritiVars, logCall,
                 tasks, profileCall>>

\* The table applies one of the updates in flight, whichever reaches it first;
\* each update is applied as a whole.
IncrementSymptomCountApply ==
  /\ \E n \in 1..Len(pending) :
       /\ table' = incrementSymptomCount(table, pending[n].pincode, pending[n].symptomType,
                                         pending[n].date, pending[n].incrementBy)
       /\ pending' = SubSeq(pending, 1, n - 1) \o SubSeq(pending, n + 1, Len(pending))
  /\ aggregateCall' = NoCall
  /\ UNCHANGED <<safetyCall, safetyPrev, request, response, consoleWarn, HASH_SALT,
                 anonCall, anonPrev, validateCall, symptoms, aggregation, prakritiVars, logCall,
                 tasks, ledger, profileCall>>

(* The aggregation loop over a fetched collection *)

\* The most records a fetched collection holds
MaxRecords == 3

\* A fetched record carries its symptom type and, when the item has one, a count
FetchedRecords ==
  {[symptomType |-> t, count |-> Num(c)] : t \in SymptomTypes, c \in {2, 3}}
    \cup {[symptomType |-> t] : t \in SymptomTypes}

RECURSIVE RecordLists(_)
RecordLists(n) ==
  IF n = 0 THEN {<<>>}
  ELSE RecordLists(n - 1) \cup
       {Append(l, r) : l \in {m \in RecordLists(n - 1) : Len(m) = n - 1}, r \in FetchedRecords}

FetchedLists == RecordLists(MaxRecords)

\* The orders in which n records can arrive
Orders(n) == {f \in [1..n -> 1..n] : \A i, j \in 1..n : f[i] = f[j] => i = j}

Reordered(records, order) == [i \in 1..Len(records) |-> records[order[i]]]

\* The loop runs over the fetched records as they arrived and in another order.
AggregateFetched ==
  /\ \E order \in Orders(Len(symptoms)) :
       aggregation' = [kind |-> "call", order |-> order,
                       inOrder |-> AggregateLoop(NewMap, symptoms),
                       reordered |-> AggregateLoop(NewMap, Reordered(symptoms, order))]
  /\ UNCHANGED <<safetyCall, safetyPrev, request, response, consoleWarn, HASH_SALT,
                 anonCall, anonPrev, validateCall, symptoms, table, aggregateCall,
                 prakritiVars, logCall,
                 flightVars, profileCall>>

-----------------------------------------------------------------------------
(* lib/prakriti-calculator.ts *)

\* Numbers of the calculator are fixed-point integers: a dosha weight, a raw
\* score and a normalized score are all held in hundredths (1.0 is 100, 33.33
\* is 3333), an answer is a whole number. Sums and quotients are exact where
\* the doubles of the code carry a rounding error below 1e-12.
Hundredths == 100

\* Math.round(num / den): the nearest integer, halves going up
MathRoundOfQuotient(num, den) ==
  IF den > 0 THEN (2 * num + den) \div (2 * den)
  ELSE (2 * (0 - num) + (0 - den)) \div (2 * (0 - den))

MathMax_FirstArgument(a, b, c) == a

\* Math.max(a, b, c)
MathMax(a, b, c) == IF a >= b /\ a >= c THEN a ELSE IF b >= c THEN b ELSE c

createQuizAnswer_UnitWeights(questionId, answer, vataWeight, pittaWeight, kaphaWeight) ==
  [questionId |-> questionId,
   answer |-> answer,
   doshaWeights |-> [vata |-> Hundredths, pitta |-> Hundredths, kapha |-> Hundredths]]

\* createQuizAnswer(questionId, answer, vataWeight = 1, pittaWeight = 1, kaphaWeight = 1):
\* a weight argument is a number (in hundredths) or undefined
createQuizAnswer(questionId, answer, vataWeight, pittaWeight, kaphaWeight) ==
  [questionId |-> questionId,
   answer |-> answer,
   doshaWeights |-> [vata |-> IF vataWeight.t = "undefined" THEN Hundredths ELSE vataWeight.v,
                     pitta |-> IF pittaWeight.t = "undefined" THEN Hundredths ELSE pittaWeight.v,
                     kapha |-> IF kaphaWeight.t = "undefined" THEN Hundredths ELSE kaphaWeight.v]]

\* The loop of calculateRawScores: the first answer outside 1..5 throws
RECURSIVE RawScoresLoop(_, _)
RawScoresLoop(scores, answers) ==
  IF answers = <<>> THEN Return(scores)
  ELSE LET answer == Head(answers) IN
       IF answer.answer < 1 \/ answer.answer > 5
       THEN Throw("Error: Invalid answer value")
       ELSE RawScoresLoop(
              [vata |-> scores.vata + answer.answer * answer.doshaWeights.vata,
               pitta |-> scores.pitta + answer.answer * answer.doshaWeights.pitta,
               kapha |-> scores.kapha + answer.answer * answer.doshaWeights.kapha],
              Tail(answers))

calculateRawScores(answers) == RawScoresLoop([vata |-> 0, pitta |-> 0, kapha |-> 0], answers)

\* The score every dosha gets when no raw score is above zero: 33.33
EqualShare == 3333

NormalizedScore_Truncated(score, maxScore) == (score * 100 * Hundredths) \div maxScore

\* Math.round((score / maxScore) * 100 * 100) / 100, in hundredths
NormalizedScore(score, maxScore) == MathRoundOfQuotient(score * 100 * Hundredths, maxScore)

normalizeScores_ZeroShare(rawScores) ==
  LET maxScore == MathMax(rawScores.vata, rawScores.pitta, rawScores.kapha)
  IN  IF maxScore = 0
      THEN [vata |-> 0, pitta |-> 0, kapha |-> 0]
      ELSE [vata |-> NormalizedScore(rawScores.vata, maxScore),
            pitta |-> NormalizedScore(rawScores.pitta, maxScore),
            kapha |-> NormalizedScore(rawScores.kapha, maxScore)]

normalizeScores(rawScores) ==
  LET maxScore == MathMax(rawScores.vata, rawScores.pitta, rawScores.kapha)
  IN  IF maxScore = 0
      THEN [vata |-> EqualShare, pitta |-> EqualShare, kapha |-> EqualShare]
      ELSE [vata |-> NormalizedScore(rawScores.vata, maxScore),
            pitta |-> NormalizedScore(rawScores.pitta, maxScore),
            kapha |-> NormalizedScore(rawScores.kapha, maxScore)]

SortDescending_Unsorted(entries) == entries

RECURSIVE SortDescending_TiesReversed(_)
SortDescending_TiesReversed(entries) ==
  IF entries = <<>> THEN <<>>
  ELSE LET sorted == SortDescending_TiesReversed(SubSeq(entries, 1, Len(entries) - 1))
           last == entries[Len(entries)]
           before == SelectSeq(sorted, LAMBDA e : e[2] > last[2])
           after == SelectSeq(sorted, LAMBDA e : e[2] <= last[2])
       IN  before \o <<last>> \o after

\* Array.prototype.sort((a, b) => b[1] - a[1]): descending by score, and
\* stable, so entries of equal score keep the order they had
RECURSIVE SortDescending(_)
SortDescending(entries) ==
  IF entries = <<>> THEN <<>>
  ELSE LET sorted == SortDescending(SubSeq(entries, 1, Len(entries) - 1))
           last == entries[Len(entries)]
           before == SelectSeq(sorted, LAMBDA e : e[2] >= last[2])
           after == SelectSeq(sorted, LAMBDA e : e[2] < last[2])
       IN  before \o <<last>> \o after

\* The differences at which a constitution is balanced and at which a second
\* dosha is reported: 10 and 15
BalancedRange_Fifteen == 15 * Hundredths

BalancedRange == 10 * Hundredths

SecondaryRange == 15 * Hundredths

determineDoshas_SecondaryWhenTied(scores) ==
  LET doshaScores == SortDescending(<<<<"vata", scores.vata>>, <<"pitta", scores.pitta>>,
                                      <<"kapha", scores.kapha>>>>)
      firstScore == doshaScores[1][2]
      secondScore == doshaScores[2][2]
      thirdScore == doshaScores[3][2]
  IN  IF firstScore - thirdScore <= BalancedRange
      THEN [dominant |-> Key("balanced"), secondary |-> Undefined]
      ELSE [dominant |-> Key(doshaScores[1][1]),
            secondary |-> IF firstScore - secondScore <= SecondaryRange
                          THEN Key(doshaScores[2][1]) ELSE Undefined]

determineDoshas(scores) ==
  LET doshaScores == SortDescending(<<<<"vata", scores.vata>>, <<"pitta", scores.pitta>>,
                                      <<"kapha", scores.kapha>>>>)
      firstDosha == doshaScores[1][1]
      firstScore == doshaScores[1][2]
      secondDosha == doshaScores[2][1]
      secondScore == doshaScores[2][2]
      thirdScore == doshaScores[3][2]
      scoreRange == firstScore - thirdScore
      isBalanced == scoreRange <= BalancedRange
      hasSecondary == firstScore - secondScore <= SecondaryRange /\ secondScore > thirdScore
  IN  IF isBalanced
      THEN [dominant |-> Key("balanced"), secondary |-> Undefined]
      ELSE [dominant |-> Key(firstDosha),
            secondary |-> IF hasSecondary THEN Key(secondDosha) ELSE Undefined]

calculatePrakriti_NoTrim(userId, answers, now) ==
  IF ~Truthy(userId)
  THEN Throw("Error: userId is required")
  ELSE IF ~Truthy(Arr(answers)) \/ Len(answers) = 0
  THEN Throw("Error: At least one answer is required")
  ELSE LET rawScores == calculateRawScores(answers) IN
       IF rawScores.kind = "throw" THEN rawScores
       ELSE LET normalizedScores == normalizeScores(rawScores.value)
                doshas == determineDoshas(normalizedScores)
            IN  Return([userId |-> userId,
                        scores |-> normalizedScores,
                        dominant |-> doshas.dominant,
                        secondary |-> doshas.secondary,
                        assessmentDate |-> now])

calculatePrakriti_SecondaryByTime(userId, answers, now) ==
  IF ~Truthy(userId) \/ Trim(userId.v) = <<>>
  THEN Throw("Error: userId is required")
  ELSE IF ~Truthy(Arr(answers)) \/ Len(answers) = 0
  THEN Throw("Error: At least one answer is required")
  ELSE LET rawScores == calculateRawScores(answers) IN
       IF rawScores.kind = "throw" THEN rawScores
       ELSE LET normalizedScores == normalizeScores(rawScores.value)
                doshas == determineDoshas(normalizedScores)
            IN  Return([userId |-> userId,
                        scores |-> normalizedScores,
                        dominant |-> doshas.dominant,
                        secondary |-> IF now = 1 THEN doshas.secondary ELSE Undefined,
                        assessmentDate |-> now])

\* calculatePrakriti(userId, answers), called at the time now
calculatePrakriti(userId, answers, now) ==
  IF ~Truthy(userId) \/ Trim(userId.v) = <<>>
  THEN Throw("Error: userId is required")
  ELSE IF ~Truthy(Arr(answers)) \/ Len(answers) = 0
  THEN Throw("Error: At least one answer is required")
  ELSE LET rawScores == calculateRawScores(answers) IN
       IF rawScores.kind = "throw" THEN rawScores
       ELSE LET normalizedScores == normalizeScores(rawScores.value)
                doshas == determineDoshas(normalizedScores)
            IN  Return([userId |-> userId,
                        scores |-> normalizedScores,
                        dominant |-> doshas.dominant,
                        secondary |-> doshas.secondary,
                        assessmentDate |-> now])

(* The calls of calculatePrakriti *)

\* The most answers a questionnaire holds
MaxAnswers == 2

QuizUserIds == {Str(<<>>), Str(<<" ", " ">>), Str(<<"u", "1">>)}

\* Dosha weights in hundredths: the weights of the tests, the boundaries of
\* the two ranges, ties of each pair, all zero, and negative triples
DoshaWeights ==
  {<<100, 50, 30>>, <<100, 90, 20>>, <<100, 100, 100>>, <<0, 0, 0>>, <<20, 100, 10>>,
   <<90, 95, 100>>, <<89, 100, 95>>, <<100, 85, 50>>, <<84, 50, 100>>, <<85, 100, 85>>,
   <<50, 100, 100>>, <<100, 100, 50>>, <<100, 40, 100>>, <<-50, -50, -100>>,
   <<0, -50, -100>>}

\* Answers inside 1..5 with each weight triple, and answers outside with one
QuizAnswers ==
  {createQuizAnswer(1, a, Num(w[1]), Num(w[2]), Num(w[3])) : a \in {1, 5}, w \in DoshaWeights}
    \cup {createQuizAnswer(1, a, Undefined, Undefined, Undefined) : a \in {0, 3, 6}}

RECURSIVE AnswerLists(_)
AnswerLists(n) ==
  IF n = 0 THEN {<<>>}
  ELSE AnswerLists(n - 1) \cup
       {Append(l, a) : l \in {m \in AnswerLists(n - 1) : Len(m) = n - 1}, a \in QuizAnswers}

\* The usage example of the documentation
DocumentedExample ==
  [kind |-> "input",
   userId |-> Str(<<"u", "s", "e", "r", "-", "1", "2", "3">>),
   answers |-> <<createQuizAnswer(1, 4, Num(100), Num(50), Num(30)),
                 createQuizAnswer(2, 3, Num(40), Num(100), Num(60)),
                 createQuizAnswer(3, 5, Num(20), Num(30), Num(100))>>]

QuizInputs == {[kind |-> "input", userId |-> u, answers |-> l] :
                 u \in QuizUserIds, l \in AnswerLists(MaxAnswers)}
                \cup {DocumentedExample}

\* The times at which a call can be made
Times == {1, 2}

\* A caller invokes calculatePrakriti(userId, answers).
CalculatePrakritiCall ==
  /\ prakritiCall = NoCall
  /\ \E now \in Times :
       prakritiCall' = [kind |-> "call", now |-> now,
                        outcome |-> calculatePrakriti(quizInput.userId, quizInput.answers, now)]
  /\ UNCHANGED <<safetyCall, safetyPrev, request, response, consoleWarn, HASH_SALT,
                 anonCall, anonPrev, validateCall, symptomVars, quizInput, prakritiAgain,
                 logCall,
                 flightVars, profileCall>>

\* A caller invokes it again, with the same arguments.
CalculatePrakritiAgain ==
  /\ prakritiCall # NoCall
  /\ prakritiAgain = NoCall
  /\ \E now \in Times :
       prakritiAgain' = [kind |-> "call", now |-> now,
                         outcome |-> calculatePrakriti(quizInput.userId, quizInput.answers, now)]
  /\ UNCHANGED <<safetyCall, safetyPrev, request, response, consoleWarn, HASH_SALT,
                 anonCall, anonPrev, validateCall, symptomVars, quizInput, prakritiCall,
                 logCall,
                 flightVars, profileCall>>

-----------------------------------------------------------------------------
(* The direct calls of logEmergencyDetection *)

\* The keyword lists and region hints a caller passes: the arguments of the
\* tests, an empty list, two keywords, no region and an empty one
DetectedKeywordLists ==
  {<<>>, <<EMERGENCY_KEYWORDS[1]>>, <<EMERGENCY_KEYWORDS[2]>>,
   <<EMERGENCY_KEYWORDS[1], EMERGENCY_KEYWORDS[11]>>}

RegionHints == {Undefined, Key(""), Key("110001"), Key("560001")}

\* A caller invokes logEmergencyDetection(detectedKeywords, region): one
\* console.warn call, and the function returns undefined.
LogEmergencyDetectionCall ==
  /\ Len(consoleWarn) < MaxLog
  /\ \E detectedKeywords \in DetectedKeywordLists, region \in RegionHints :
       /\ logCall' = [kind |-> "call", detectedKeywords |-> detectedKeywords,
                      region |-> region, outcome |-> Return(Undefined)]
       /\ consoleWarn' = Append(consoleWarn, logEmergencyDetection(detectedKeywords, region))
  /\ UNCHANGED <<safetyCall, safetyPrev, request, response, HASH_SALT, anonCall, anonPrev,
                 validateCall, symptomVars, prakritiVars,
                 flightVars, profileCall>>

-----------------------------------------------------------------------------
(* lib/dynamodb-utils.ts: the stored Prakriti assessments of a user *)

\* `USER#${userId}` and `PRAKRITI#${timestamp || Date.now()}`: the segments of
\* the key. Date.now() values all have the same number of digits, so the order
\* of the sort-key strings is the order of the timestamps.
generateUserPK(userId) == <<"USER", userId.v>>
generatePrakritiSK(timestamp, now) == <<"PRAKRITI", IF Truthy(timestamp) THEN timestamp.v ELSE now>>

\* The attributes of an entity whose value the model writes untagged
PlainAttributes == {"PK", "SK", "scores", "assessmentDate"}

\* marshall(item, {removeUndefinedValues: true}): a map of numbers becomes an
\* M of N values, a string an S value, and an undefined member is left out
Marshall(entity) ==
  [n \in {m \in DOMAIN entity : m \in PlainAttributes \/ entity[m].t # "undefined"} |->
     IF n = "scores"
     THEN [M |-> [d \in DOMAIN entity[n] |-> [N |-> entity[n][d]]]]
     ELSE [S |-> entity[n]]]

\* unmarshall(item)
Unmarshall(item) ==
  [n \in DOMAIN item |->
     IF "M" \in DOMAIN item[n]
     THEN [d \in DOMAIN item[n].M |-> item[n].M[d].N]
     ELSE item[n].S]

createPrakriti_StoresProfile(tbl, params, now) ==
  LET timestamp == Num(now)
      entity == [PK |-> generateUserPK(params.userId),
                 SK |-> generatePrakritiSK(timestamp, now),
                 scores |-> params.profile.scores,
                 dominant |-> params.profile.dominant,
                 secondary |-> params.profile.secondary,
                 assessmentDate |-> params.profile.assessmentDate]
  IN  [table |-> PutItem(tbl, Marshall(entity)), entity |-> entity]

\* createPrakriti(params) at the time now: the table after the put, and the
\* entity returned
createPrakriti(tbl, params, now) ==
  LET timestamp == Num(now)
      entity == [PK |-> generateUserPK(params.userId),
                 SK |-> generatePrakritiSK(timestamp, now),
                 scores |-> params.profile.scores,
                 dominant |-> params.profile.dominant,
                 assessmentDate |-> params.profile.assessmentDate]
  IN  [table |-> PutItem(tbl, Marshall(entity)), entity |-> entity]

\* getLatestPrakriti(userId): the query for PK = :pk AND begins_with(SK, 'PRAKRITI#'),
\* descending, Limit 1; (result.Items?.[0]) || null
getLatestPrakriti(tbl, userId) ==
  LET items == {i \in tbl : i.PK.S = generateUserPK(userId) /\ i.SK.S[1] = "PRAKRITI"}
  IN  IF items = {} THEN Null
      ELSE Unmarshall(CHOOSE i \in items : \A j \in items : j.SK.S[2] <= i.SK.S[2])

(* The calls of createPrakriti and getLatestPrakriti *)

\* The most createPrakriti calls made
MaxProfiles == 2

PrakritiUserIds == {Str(<<"u", "1">>), Str(<<"u", "2">>)}

\* Profiles calculatePrakriti returned: with a secondary, without one, balanced
CalculatedProfiles ==
  {calculatePrakriti(Str(<<"u", "1">>),
                     <<createQuizAnswer(1, 5, Num(w[1]), Num(w[2]), Num(w[3]))>>, now).value :
     w \in {<<100, 90, 20>>, <<100, 50, 30>>, <<100, 100, 100>>}, now \in {1}}
  \cup {calculatePrakriti(Str(<<"u", "1">>),
                          <<createQuizAnswer(1, 5, Num(50), Num(100), Num(100))>>, 2).value}

\* The time of the latest createPrakriti call, 1 before the first
LastPut == IF ledger.calls = <<>> THEN 1 ELSE ledger.calls[Len(ledger.calls)].now

\* A caller invokes createPrakriti({userId, profile}), in the millisecond of the
\* call before it or in the next. ledger keeps the calls made.
CreatePrakritiCall ==
  /\ Len(ledger.calls) < MaxProfiles
  /\ \E userId \in PrakritiUserIds, profile \in CalculatedProfiles, now \in {LastPut, LastPut + 1} :
       /\ table' = createPrakriti(table, [userId |-> userId, profile |-> profile], now).table
       /\ ledger' = [ledger EXCEPT !.calls = Append(@, [userId |-> userId, profile |-> profile,
                                                        now |-> now])]
  /\ profileCall' = NoCall
  /\ UNCHANGED <<safetyCall, safetyPrev, request, response, consoleWarn, HASH_SALT,
                 anonCall, anonPrev, validateCall, symptoms, aggregation, aggregateCall,
                 prakritiVars, logCall, tasks, pending>>

\* A caller invokes getLatestPrakriti(userId).
GetLatestPrakritiCall ==
  /\ \E userId \in PrakritiUserIds :
       profileCall' = [kind |-> "call", userId |-> userId,
                       outcome |-> getLatestPrakriti(table, userId)]
  /\ UNCHANGED <<safetyCall, safetyPrev, request, response, consoleWarn, HASH_SALT,
                 anonCall, anonPrev, validateCall, symptomVars, prakritiVars, logCall,
                 flightVars>>

-----------------------------------------------------------------------------
(* Concurrent invocations of the five operations *)

\* The synchronous operations run to completion in one step of the event
\* loop; aggregateSymptomsByRegion awaits its query, so other invocations can
\* run between its query and its loop.

\* The most invocations in progress at once
MaxTasks == 2

TaskIds == 1..MaxTasks

Idle == [pc |-> "idle"]

\* The table the invocations read
SampleTable ==
  createSymptom(
    createSymptom(
      createSymptom({},
        [pincode |-> Key("110001"), symptomType |-> Key("fever"), count |-> Num(3),
         severity |-> Key("low"), date |-> Key("2024-01-01")]),
      [pincode |-> Key("110001"), symptomType |-> Key("cough"), count |-> Num(2),
       severity |-> Key("low"), date |-> Key("2024-01-01")]),
    [pincode |-> Key("110001"), symptomType |-> Key("fever"), count |-> Num(1),
     severity |-> Key("low"), date |-> Key("2024-01-02")])

SampleReport ==
  [symptomType |-> Key("fever"), severity |-> Key("low"), timestamp |-> Num(1),
   location |-> Obj([pincode |-> Key("110001"), state |-> Key("Delhi")]),
   userId |-> Str(<<"a">>), name |-> Key("Asha Rao")]

\* The synchronous invocations
SyncInvocations ==
  {[op |-> "checkEmergencyKeywords", input |-> Str(<<"S", "T", "R", "O", "K", "E", " ">>),
    language |-> l] : l \in {Undefined, Key("hi")}}
  \cup {[op |-> "calculatePrakriti", userId |-> Str(<<"u", "1">>),
         answers |-> <<createQuizAnswer(1, 5, Num(w[1]), Num(w[2]), Num(w[3]))>>, now |-> now] :
          w \in {<<100, 90, 20>>}, now \in Times}
  \cup {[op |-> "anonymizeForSentinel", report |-> SampleReport, salt |-> s] :
          s \in {Undefined, Str(<<"b">>)}}
  \cup {[op |-> "validateAnonymization", data |-> d] :
          d \in {SampleReport, anonymizeForSentinel(SampleReport, Str(<<"k">>), Undefined).value}}

AggregateInvocations ==
  {[op |-> "aggregateSymptomsByRegion", pincode |-> Key("110001"), date |-> d] : d \in Dates}

\* What a synchronous invocation returns or throws
Outcome(call) ==
  CASE call.op = "checkEmergencyKeywords" -> checkEmergencyKeywords(call.input, call.language)
    [] call.op = "calculatePrakriti" -> calculatePrakriti(call.userId, call.answers, call.now)
    [] call.op = "anonymizeForSentinel" -> anonymizeForSentinel(call.report, call.salt, HASH_SALT)
    [] call.op = "validateAnonymization" -> validateAnonymization(call.data)

\* While task t takes a step, the tasks awaiting their query are overlapped
Overlapping(t, mine) ==
  [u \in TaskIds |->
     IF u = t THEN mine
     ELSE IF tasks[u].pc = "awaiting" THEN [tasks[u] EXCEPT !.overlapped = TRUE]
     ELSE tasks[u]]

\* A caller invokes one of the synchronous operations.
SyncInvocation ==
  /\ \E t \in TaskIds, call \in SyncInvocations :
       /\ tasks[t].pc = "idle"
       /\ tasks' = Overlapping(t, [pc |-> "done", call |-> call, outcome |-> Outcome(call)])
  /\ UNCHANGED <<safetyCall, safetyPrev, request, response, consoleWarn, HASH_SALT,
                 anonCall, anonPrev, validateCall, symptomVars, prakritiVars, logCall,
                 pending, ledger, profileCall>>

\* aggregateSymptomsByRegion up to its await: the query is sent and answered.
AggregateQuery ==
  /\ \E t \in TaskIds, call \in AggregateInvocations :
       /\ tasks[t].pc = "idle"
       /\ tasks' = Overlapping(t,
            [pc |-> "awaiting", call |-> call, overlapped |-> FALSE,
             fetched |-> getSymptomsByRegion(table, call.pincode, call.date, call.date)])
  /\ UNCHANGED <<safetyCall, safetyPrev, request, response, consoleWarn, HASH_SALT,
                 anonCall, anonPrev, validateCall, symptomVars, prakritiVars, logCall,
                 pending, ledger, profileCall>>

\* aggregateSymptomsByRegion after its await: the loop over what was fetched.
AggregateResume ==
  /\ \E t \in TaskIds :
       /\ tasks[t].pc = "awaiting"
       /\ LET outcome == Return(AggregateLoop(NewMap, tasks[t].fetched)) IN
          /\ tasks' = Overlapping(t, [pc |-> "done", call |-> tasks[t].call,
                                      overlapped |-> tasks[t].overlapped, outcome |-> outcome])
          /\ aggregateCall' = [kind |-> "call", pincode |-> tasks[t].call.pincode,
                               date |-> tasks[t].call.date, outcome |-> outcome.value]
  /\ UNCHANGED <<safetyCall, safetyPrev, request, response, consoleWarn, HASH_SALT,
                 anonCall, anonPrev, validateCall, symptoms, aggregation, table,
                 prakritiVars, logCall, pending, ledger, profileCall>>

\* The caller of a finished invocation has its result; the task is free again.
TaskReturns ==
  /\ \E t \in TaskIds :
       /\ tasks[t].pc = "done"
       /\ tasks' = Overlapping(t, Idle)
  /\ UNCHANGED <<safetyCall, safetyPrev, request, response, consoleWarn, HASH_SALT,
                 anonCall, anonPrev, validateCall, symptomVars, prakritiVars, logCall,
                 pending, ledger, profileCall>>

-----------------------------------------------------------------------------
(* Specifications *)

\* Nothing has been called yet: the state each component starts from
IdleRequests ==
  /\ safetyCall = NoCall
  /\ safetyPrev = NoCall
  /\ request = NoCall
  /\ response = NoCall
  /\ consoleWarn = <<>>
  /\ logCall = NoCall

IdleSentinel ==
  /\ anonCall = NoCall
  /\ anonPrev = NoCall
  /\ validateCall = NoCall

IdleSymptoms ==
  /\ symptoms = <<>>
  /\ aggregation = NoCall
  /\ table = {}
  /\ aggregateCall = NoCall

IdlePrakriti ==
  /\ quizInput = NoCall
  /\ prakritiCall = NoCall
  /\ prakritiAgain = NoCall

IdleFlights ==
  /\ tasks = <<>>
  /\ pending = <<>>
  /\ ledger = NoCall
  /\ profileCall = NoCall

Init ==
  /\ IdleRequests
  /\ IdleFlights
  /\ HASH_SALT = Undefined
  /\ IdleSentinel
  /\ IdleSymptoms
  /\ IdlePrakriti

NextSafety == CheckEmergencyKeywordsCall

SpecSafety == Init /\ [][NextSafety]_vars

NextChat == ChatRequest

SpecChat == Init /\ [][NextChat]_vars

\* The anonymiser, under each configuration of process.env.HASH_SALT
InitAnonymize ==
  /\ IdleRequests
  /\ IdleFlights
  /\ HASH_SALT \in ConfiguredSalts
  /\ IdleSentinel
  /\ IdleSymptoms
  /\ IdlePrakriti

NextAnonymize == AnonymizeCall

SpecAnonymize == InitAnonymize /\ [][NextAnonymize]_vars

\* Anonymisation followed by validation of what it returned; no earlier call
\* is kept for comparison
AnonymizeForStorage == AnonymizeCall /\ anonPrev' = anonPrev

NextPipeline == AnonymizeForStorage \/ ValidateAnonymizedCall

SpecPipeline == InitAnonymize /\ [][NextPipeline]_vars

NextValidate == ValidateCall

SpecValidate == Init /\ [][NextValidate]_vars

\* The symptom table, from empty
NextSymptoms == CreateSymptomCall \/ IncrementSymptomCountCall \/ AggregateSymptomsByRegionCall

SpecSymptoms == Init /\ [][NextSymptoms]_vars

\* The symptom table with its latest write kept
NextReplace ==
  CreateSymptomOverCall \/ IncrementSymptomCountOverCall \/ AggregateSymptomsByRegionCall

SpecReplace == Init /\ [][NextReplace]_vars

\* Concurrent increments of an item createSymptom has written
InitIncrements ==
  /\ IdleRequests
  /\ HASH_SALT = Undefined
  /\ IdleSentinel
  /\ symptoms = <<>>
  /\ aggregation = NoCall
  /\ aggregateCall = NoCall
  /\ IdlePrakriti
  /\ \E params \in CreateSymptomParams :
       /\ table = createSymptom({}, params)
       /\ ledger = [kind |-> "created", params |-> params, amounts |-> <<>>]
  /\ tasks = <<>>
  /\ pending = <<>>
  /\ profileCall = NoCall

NextIncrements ==
  IncrementSymptomCountSend \/ IncrementSymptomCountApply \/ AggregateSymptomsByRegionCall

SpecIncrements == InitIncrements /\ [][NextIncrements]_vars

\* The aggregation loop, over each fetched collection
InitAggregate ==
  /\ IdleRequests
  /\ IdleFlights
  /\ HASH_SALT = Undefined
  /\ IdleSentinel
  /\ symptoms \in FetchedLists
  /\ aggregation = NoCall
  /\ table = {}
  /\ aggregateCall = NoCall
  /\ IdlePrakriti

NextAggregate == AggregateFetched

SpecAggregate == InitAggregate /\ [][NextAggregate]_vars

\* calculatePrakriti, on each questionnaire
InitPrakriti ==
  /\ IdleRequests
  /\ IdleFlights
  /\ HASH_SALT = Undefined
  /\ IdleSentinel
  /\ IdleSymptoms
  /\ quizInput \in QuizInputs
  /\ prakritiCall = NoCall
  /\ prakritiAgain = NoCall

NextPrakriti == CalculatePrakritiCall \/ CalculatePrakritiAgain

SpecPrakriti == InitPrakriti /\ [][NextPrakriti]_vars

NextLog == LogEmergencyDetectionCall

SpecLog == Init /\ [][NextLog]_vars

\* Concurrent invocations, under each configured salt, over a filled table
InitConcurrent ==
  /\ IdleRequests
  /\ HASH_SALT \in ConfiguredSalts
  /\ IdleSentinel
  /\ symptoms = <<>>
  /\ aggregation = NoCall
  /\ table = SampleTable
  /\ aggregateCall = NoCall
  /\ IdlePrakriti
  /\ tasks = [t \in TaskIds |-> Idle]
  /\ pending = <<>>
  /\ ledger = NoCall
  /\ profileCall = NoCall

NextConcurrent == SyncInvocation \/ AggregateQuery \/ AggregateResume \/ TaskReturns

SpecConcurrent == InitConcurrent /\ [][NextConcurrent]_vars

\* The stored assessments, from an empty table
InitPersist ==
  /\ IdleRequests
  /\ HASH_SALT = Undefined
  /\ IdleSentinel
  /\ IdleSymptoms
  /\ IdlePrakriti
  /\ tasks = <<>>
  /\ pending = <<>>
  /\ ledger = [kind |-> "profiles", calls |-> <<>>]
  /\ profileCall = NoCall

NextPersist == CreatePrakritiCall \/ GetLatestPrakritiCall

SpecPersist == InitPersist /\ [][NextPersist]_vars

Next ==
  \/ CheckEmergencyKeywordsCall \/ ChatRequest \/ LogEmergencyDetectionCall
  \/ AnonymizeCall \/ ValidateCall
  \/ CreateSymptomCall \/ IncrementSymptomCountCall \/ AggregateSymptomsByRegionCall
  \/ AggregateFetched
  \/ CalculatePrakritiCall \/ CalculatePrakritiAgain
  \/ ValidateAnonymizedCall
  \/ CreateSymptomOverCall \/ IncrementSymptomCountOverCall
  \/ IncrementSymptomCountSend \/ IncrementSymptomCountApply
  \/ CreatePrakritiCall \/ GetLatestPrakritiCall
  \/ SyncInvocation \/ AggregateQuery \/ AggregateResume \/ TaskReturns

Spec == InitAnonymize /\ [][Next]_vars

-----------------------------------------------------------------------------
(* Properties of checkEmergencyKeywords *)

\* k occurs in s as a run of consecutive characters
OccursIn(k, s) == \E a, b \in 0..Len(s) : a + Len(k) + b = Len(s) /\ SubSeq(s, a + 1, a + Len(k)) = k

\* The places of the keyword table whose entry occurs in the lower-cased text
MatchPlaces(text) ==
  {i \in 1..Len(EMERGENCY_KEYWORDS) : OccursIn(EMERGENCY_KEYWORDS[i], ToLowerCase(text))}

\* The p-th smallest member of a set of places
NthPlace(places, p) == CHOOSE i \in places : Cardinality({j \in places : j < i}) = p - 1

IsNonEmptyString(x) == x.t = "string" /\ x # Str(<<>>)

\* C1: for a non-empty string and any language code, the detected keywords are
\* exactly the table entries occurring in the lower-cased text, all of them, in
\* table order; a non-empty match set gives isEmergency with those keywords and
\* an advisory, an empty one gives isEmergency=false and neither field.
C1_MatchSetExact ==
  (safetyCall # NoCall /\ IsNonEmptyString(safetyCall.input)) =>
    /\ safetyCall.outcome.kind = "return"
    /\ LET r == safetyCall.outcome.value
           places == MatchPlaces(safetyCall.input.v)
       IN IF places # {}
          THEN /\ r.isEmergency
               /\ DOMAIN r = {"isEmergency", "emergencyResponse", "detectedKeywords"}
               /\ r.emergencyResponse # Undefined
               /\ Len(r.detectedKeywords) = Cardinality(places)
               /\ \A p \in 1..Len(r.detectedKeywords) :
                    r.detectedKeywords[p] = EMERGENCY_KEYWORDS[NthPlace(places, p)]
          ELSE /\ ~r.isEmergency
               /\ DOMAIN r = {"isEmergency"}

\* C1 witness: "STROKE Chest Pain" (upper case, stroke written first) is
\* classified with the two keywords in table order.
C1_Witness ==
  /\ safetyCall # NoCall
  /\ safetyCall.input = Str(<<"S", "T", "R", "O", "K", "E", " ", "C", "h", "e", "s", "t", " ", "P", "a", "i", "n">>)
  /\ safetyCall.outcome.kind = "return"
  /\ safetyCall.outcome.value.isEmergency
  /\ safetyCall.outcome.value.detectedKeywords =
       <<EMERGENCY_KEYWORDS[1], EMERGENCY_KEYWORDS[11]>>

\* C2: checkEmergencyKeywords returns for every input value and language code,
\* never throws, and reports no emergency for null, undefined, the empty string
\* and non-string values.
C2_Total ==
  safetyCall # NoCall =>
    /\ safetyCall.outcome.kind = "return"
    /\ ~IsNonEmptyString(safetyCall.input) =>
         safetyCall.outcome.value = [isEmergency |-> FALSE]

\* C2 witness: a call with a number, which has no toLowerCase, has returned.
C2_Witness ==
  /\ safetyCall # NoCall
  /\ safetyCall.input = Num(42)
  /\ safetyCall.outcome = Return([isEmergency |-> FALSE])

\* The advisory the language table holds for a language code, English for any
\* code that is not one of the five supported ones or is missing.
AdvisoryFor(language) ==
  IF language.t = "string" /\ language.s \in SupportedLanguages
  THEN EMERGENCY_RESPONSES[language.s]
  ELSE EMERGENCY_RESPONSES.en

\* C4: an emergency result carries the table entry of a supported language
\* code and the English entry for every other language code.
C4_AdvisoryByLanguage ==
  (safetyCall # NoCall /\ safetyCall.outcome.kind = "return"
     /\ safetyCall.outcome.value.isEmergency) =>
    safetyCall.outcome.value.emergencyResponse = AdvisoryFor(safetyCall.language)

\* The advisory names the hotline number.
ContainsHotline(advisory) ==
  advisory.t = "string" /\ \E i \in 1..Len(advisory.v) : advisory.v[i] = "108"

\* C5: two emergency results for the same language code carry the same
\* advisory, whatever the texts and the keywords detected, and the advisory of
\* each of the five languages contains the hotline number 108.
C5_CannedAdvisory ==
  /\ (/\ safetyCall # NoCall /\ safetyPrev # NoCall
      /\ safetyCall.outcome.kind = "return" /\ safetyCall.outcome.value.isEmergency
      /\ safetyPrev.outcome.isEmergency
      /\ safetyPrev.language = safetyCall.language) =>
       safetyCall.outcome.value.emergencyResponse = safetyPrev.outcome.emergencyResponse
  /\ \A l \in SupportedLanguages : ContainsHotline(EMERGENCY_RESPONSES[l])
  /\ (safetyCall # NoCall /\ safetyCall.outcome.kind = "return"
        /\ safetyCall.outcome.value.isEmergency
        /\ safetyCall.language.t = "string" /\ safetyCall.language.s \in SupportedLanguages) =>
       ContainsHotline(safetyCall.outcome.value.emergencyResponse)

\* C5 witness: two Tamil emergencies in a row, one keyword detected in the
\* first and two in the second.
C5_Witness ==
  /\ safetyCall # NoCall /\ safetyPrev # NoCall
  /\ safetyCall.language = Key("ta") /\ safetyPrev.language = Key("ta")
  /\ safetyPrev.outcome.isEmergency /\ safetyPrev.outcome.nKeywords = 1
  /\ safetyCall.outcome.kind = "return" /\ safetyCall.outcome.value.isEmergency
  /\ Len(safetyCall.outcome.value.detectedKeywords) = 2

-----------------------------------------------------------------------------
(* Properties of the chat request handler *)

CannedAdvisories == {EMERGENCY_RESPONSES[l] : l \in SupportedLanguages}

\* The request just handled passed the required-field check.
PassedFieldCheck(parsed) ==
  /\ parsed.kind = "return" /\ parsed.value.t = "object"
  /\ Truthy(parsed.value.v.userId) /\ Truthy(parsed.value.v.query)

\* What one handled request must have done, given what checkEmergencyKeywords
\* reports for its query.
C3_RequestHandled ==
  PassedFieldCheck(request') =>
    LET body == request'.value.v
        safetyCheck == checkEmergencyKeywords(body.query, body.language).value
    IN IF safetyCheck.isEmergency
       THEN /\ Len(consoleWarn') = Len(consoleWarn) + 1
            /\ consoleWarn'[Len(consoleWarn')].keywords = safetyCheck.detectedKeywords
            /\ response'.status = 200
            /\ "response" \in DOMAIN response'.body.data
            /\ response'.body.data.response \in CannedAdvisories
            /\ response' # RagResponse
       ELSE /\ consoleWarn' = consoleWarn
            /\ response' = RagResponse

\* C3: when checkEmergencyKeywords reports an emergency for the query, POST
\* records the detection and answers with the canned advisory, not with the
\* downstream (RAG) response; when it reports none, nothing is recorded and the
\* request gets the downstream response.
C3_EmergencyBypassesDownstream == [][C3_RequestHandled]_vars

-----------------------------------------------------------------------------
(* Properties of the anonymisation utilities *)

ForbiddenKeys == {"name", "phone", "email", "address", "fullAddress"}

\* C6: whatever personal fields the raw report carries, the record
\* anonymizeForSentinel returns has none of the keys name, phone, email,
\* address, fullAddress, holds the userId nowhere in unhashed form, and holds
\* symptomType, severity, timestamp and the location's pincode as the report
\* has them.
C6_AnonymizedRecord ==
  anonCall # NoCall =>
    /\ anonCall.outcome.kind = "return"
    /\ LET r == anonCall.outcome.value
           report == anonCall.report
       IN /\ DOMAIN r \cap ForbiddenKeys = {}
          /\ "userId" \notin DOMAIN r
          /\ \A k \in DOMAIN r : r[k].t = "string" => r[k] # report.userId
          /\ {"symptomType", "severity", "pincode", "timestamp"} \subseteq DOMAIN r
          /\ r.symptomType = report.symptomType
          /\ r.severity = report.severity
          /\ r.timestamp = report.timestamp
          /\ r.pincode = report.location.v.pincode
          /\ {"location", "state"} \cap DOMAIN r = {}

\* C6 witness: a report carrying name, phone, email and fullAddress has been
\* anonymised.
C6_Witness ==
  /\ anonCall # NoCall
  /\ {"name", "phone", "email", "fullAddress"} \subseteq DOMAIN anonCall.report
  /\ anonCall.outcome.kind = "return"
  /\ anonCall.outcome.value.pincode = Key("560001")

\* The field an error of validateAnonymization names
NamedField(error) == IF Len(error.message) = 3 THEN error.message[2] ELSE ""

\* C7: validateAnonymization throws an error naming a forbidden field that is
\* present whenever one of name, phone, email, address, fullAddress is present
\* on the record; it never returns false, and returns true only when none of
\* them is present.
C7_ForbiddenKeyRejected ==
  validateCall # NoCall =>
    LET present == DOMAIN validateCall.data \cap ForbiddenKeys
        outcome == validateCall.outcome
    IN /\ present # {} =>
            /\ outcome.kind = "throw"
            /\ NamedField(outcome.error) \in present
       /\ outcome # Return(Bool(FALSE))
       /\ outcome = Return(Bool(TRUE)) => present = {}

\* C7 witness: a record whose only forbidden key is address has been rejected
\* by an error naming address.
C7_Witness ==
  /\ validateCall # NoCall
  /\ DOMAIN validateCall.data \cap ForbiddenKeys = {"address"}
  /\ validateCall.outcome.kind = "throw"
  /\ NamedField(validateCall.outcome.error) = "address"

\* C8: validateAnonymization throws for every record whose userId is present
\* and is not a string of 64 characters.
C8_UnhashedUserIdRejected ==
  (/\ validateCall # NoCall
   /\ "userId" \in DOMAIN validateCall.data
   /\ LengthOf(validateCall.data.userId) # Num(64)) =>
    validateCall.outcome.kind = "throw"

\* C9: the hashedUserId of two calls with the same userId and the same salt is
\* the same, whatever the other fields of the reports and however many calls lie
\* between them; with the same salt and different userIds the two hashes are
\* taken over different inputs.
C9_HashOfSubjectAndSalt ==
  (anonCall # NoCall /\ anonPrev # NoCall /\ anonCall.usedSalt = anonPrev.usedSalt) =>
    /\ anonCall.report.userId = anonPrev.userId =>
         anonCall.outcome.value.hashedUserId = anonPrev.hashedUserId
    /\ anonCall.report.userId # anonPrev.userId =>
         anonCall.outcome.value.hashedUserId.sha256 # anonPrev.hashedUserId.sha256

\* C9 witness: two reports of the same user with different timestamps, hashed
\* with the same salt into the same hashedUserId.
C9_Witness ==
  /\ anonCall # NoCall /\ anonPrev # NoCall
  /\ anonCall.usedSalt = anonPrev.usedSalt
  /\ anonCall.report.userId = anonPrev.userId
  /\ anonCall.report.timestamp # anonPrev.timestamp
  /\ anonCall.outcome.value.hashedUserId = anonPrev.hashedUserId

\* C10: the salt anonymizeForSentinel hashes with is the salt the caller passed
\* or the one process.env.HASH_SALT supplies, never a value written in the code.
C10_SaltNeverHardCoded ==
  anonCall # NoCall =>
    \/ anonCall.salt # Undefined /\ anonCall.usedSalt = anonCall.salt
    \/ HASH_SALT # Undefined /\ anonCall.usedSalt = HASH_SALT

-----------------------------------------------------------------------------
(* Properties of aggregateSymptomsByRegion *)

\* A Map as the set of its <<key, value>> associations
AsMapping(map) == {map[i] : i \in 1..Len(map)}

\* The items the table holds for a pincode and a date
StoredFor(pincode, date) ==
  {i \in table : i.PK = generateRegionPK(pincode) /\ i.SK[1] = "SYMPTOM" /\ i.SK[3] = date.s}

RECURSIVE SumOfCounts(_)
SumOfCounts(items) ==
  IF items = {} THEN 0
  ELSE LET i == CHOOSE x \in items : TRUE IN i.count.v + SumOfCounts(items \ {i})

\* C11: aggregateSymptomsByRegion(pincode, date) returns a mapping whose keys
\* are exactly the symptom types of the stored records of that pincode and that
\* date, each mapped to the sum of the counts of those records; records of
\* other pincodes or dates contribute nothing.
C11_AggregateOfRegionAndDate ==
  aggregateCall.kind = "call" =>
    LET stored == StoredFor(aggregateCall.pincode, aggregateCall.date)
    IN  AsMapping(aggregateCall.outcome) =
          {<<Key(t), Num(SumOfCounts({i \in stored : i.SK[2] = t}))>> :
             t \in {i.SK[2] : i \in stored}}

\* What a record adds to the total of its symptom type: its count, or 1 when it
\* carries none
Contribution(record) == IF "count" \in DOMAIN record THEN record.count.v ELSE 1

RECURSIVE TotalOf(_, _)
TotalOf(type, records) ==
  IF records = <<>> THEN 0
  ELSE (IF Head(records).symptomType = type THEN Contribution(Head(records)) ELSE 0)
         + TotalOf(type, Tail(records))

\* C12: in the fold, a record without a count adds 1 to the total of its
\* symptom type and a record with a count adds that count.
C12_MissingCountIsOne ==
  aggregation.kind = "call" =>
    \A i \in 1..Len(symptoms) :
      MapGet(aggregation.inOrder, symptoms[i].symptomType)
        = Num(TotalOf(symptoms[i].symptomType, symptoms))

\* C13: the mapping the fold returns is the same for every order of the
\* fetched records.
C13_OrderIndependent ==
  aggregation.kind = "call" =>
    AsMapping(aggregation.inOrder) = AsMapping(aggregation.reordered)

-----------------------------------------------------------------------------
(* Properties of calculatePrakriti *)

\* Every character of the string is white space (the empty string included)
IsBlank(s) == \A i \in 1..Len(s.v) : IsWhiteSpace(s.v[i])

\* Some answer of the list, at any position, lies outside 1..5
SomeAnswerOutOfRange(answers) == \E i \in 1..Len(answers) : answers[i].answer \notin 1..5

IsProfile(outcome) ==
  /\ outcome.kind = "return"
  /\ DOMAIN outcome.value = {"userId", "scores", "dominant", "secondary", "assessmentDate"}

Returned == prakritiCall.kind = "call" /\ prakritiCall.outcome.kind = "return"

Profile == prakritiCall.outcome.value

Doshas == {"vata", "pitta", "kapha"}

\* The three scores of a profile by rank: the highest, the middle, the lowest
Rank1(scores) == MathMax(scores.vata, scores.pitta, scores.kapha)
Rank3(scores) == 0 - MathMax(0 - scores.vata, 0 - scores.pitta, 0 - scores.kapha)
Rank2(scores) == scores.vata + scores.pitta + scores.kapha - Rank1(scores) - Rank3(scores)

\* C15: a returned profile has dominant 'balanced' exactly when its highest
\* score exceeds its lowest by at most 10 (1000 hundredths), and a balanced
\* profile has no secondary.
C15_BalancedIffWithinTen ==
  Returned =>
    /\ (Profile.dominant = Key("balanced")) <=> (Rank1(Profile.scores) - Rank3(Profile.scores) <= 1000)
    /\ (Profile.dominant = Key("balanced")) => (Profile.secondary = Undefined)

\* Profiles on both sides of the boundary: a range of exactly 10 is balanced
C15_Witness ==
  /\ Returned
  /\ Rank1(Profile.scores) - Rank3(Profile.scores) = 1000
  /\ Profile.dominant = Key("balanced")
  /\ Profile.secondary = Undefined

\* C16: in a returned profile that is not balanced, the dominant dosha's score
\* is at least each of the other two scores.
C16_DominantHasHighestScore ==
  (Returned /\ Profile.dominant # Key("balanced")) =>
    \A d \in Doshas : Profile.scores[Profile.dominant.s] >= Profile.scores[d]

\* kapha was dominant, with a strictly highest score
C16_Witness ==
  /\ Returned
  /\ Profile.dominant = Key("kapha")
  /\ Profile.scores.kapha > Profile.scores.vata
  /\ Profile.scores.kapha > Profile.scores.pitta

\* C17: a returned profile that is not balanced has a secondary exactly when
\* the highest score exceeds the middle one by at most 15 (1500 hundredths)
\* and the middle one is above the lowest; the secondary then is the dosha of
\* the middle rank, so it is neither the dominant nor the lowest-ranked dosha.
C17_SecondaryIsCloseSecond ==
  (Returned /\ Profile.dominant # Key("balanced")) =>
    LET r1 == Rank1(Profile.scores)
        r2 == Rank2(Profile.scores)
        r3 == Rank3(Profile.scores)
    IN  /\ (Profile.secondary # Undefined) <=> (r1 - r2 <= 1500 /\ r2 > r3)
        /\ (Profile.secondary # Undefined) =>
             /\ Profile.secondary # Profile.dominant
             /\ Profile.secondary.s \in Doshas
             /\ Profile.scores[Profile.secondary.s] = r2
             /\ Profile.scores[Profile.secondary.s] > r3

\* A secondary exactly 15 below the dominant was reported
C17_Witness ==
  /\ Returned
  /\ Profile.dominant = Key("vata")
  /\ Profile.secondary = Key("pitta")
  /\ Profile.scores.vata - Profile.scores.pitta = 1500
  /\ Profile.scores.pitta > Profile.scores.kapha

\* No dosha weight of the questionnaire is negative
NonNegativeWeights(answers) ==
  \A i \in 1..Len(answers) : \A d \in Doshas : answers[i].doshaWeights[d] >= 0

\* C18: when no dosha weight is negative, every score of a returned profile
\* lies between 0 and 100 (10000 hundredths).
C18_ScoresWithinBounds ==
  (Returned /\ NonNegativeWeights(quizInput.answers)) =>
    \A d \in Doshas : Profile.scores[d] >= 0 /\ Profile.scores[d] <= 10000

\* Scores at both ends and strictly inside were returned
C18_Witness ==
  /\ Returned
  /\ NonNegativeWeights(quizInput.answers)
  /\ Profile.scores.vata = 10000
  /\ Profile.scores.pitta > 0
  /\ Profile.scores.pitta < 10000
  /\ Len(quizInput.answers) > 1

\* C19: a second call with the same userId and answers, made at any time,
\* returns the same scores, the same dominant and the same secondary.
C19_SameInputSameProfile ==
  (Returned /\ prakritiAgain.kind = "call") =>
    /\ prakritiAgain.outcome.kind = "return"
    /\ prakritiAgain.outcome.value.scores = Profile.scores
    /\ prakritiAgain.outcome.value.dominant = Profile.dominant
    /\ prakritiAgain.outcome.value.secondary = Profile.secondary

\* Two calls at different times returned a profile with a secondary
C19_Witness ==
  /\ Returned
  /\ prakritiAgain.kind = "call"
  /\ prakritiAgain.now # prakritiCall.now
  /\ prakritiAgain.outcome.value.assessmentDate # Profile.assessmentDate
  /\ Profile.secondary # Undefined

-----------------------------------------------------------------------------
(* Properties of logEmergencyDetection *)

\* The entry a step appended to console.warn, when it appended exactly one
AppendedOne == Len(consoleWarn') = Len(consoleWarn) + 1

NewEntry == consoleWarn'[Len(consoleWarn')]

\* The members of the logged object (the label is console.warn's first argument)
LoggedMembers(entry) == DOMAIN entry \ {"label"}

C20_OnlyKeywordsAndRegion ==
  /\ logCall'.outcome.kind = "return"
  /\ AppendedOne
  /\ LoggedMembers(NewEntry) = {"keywords", "region"}
  /\ NewEntry.keywords = logCall'.detectedKeywords
  /\ NewEntry.region = IF logCall'.region = Undefined THEN Key("unknown") ELSE logCall'.region

\* C20, as stated: logEmergencyDetection does not throw and writes exactly one
\* log entry, which holds only the keyword list it was given and the region
\* hint, 'unknown' when no region is supplied.
C20_LogsOnlyKeywordsAndRegion == [][C20_OnlyKeywordsAndRegion]_vars

C20_TimestampKeywordsAndRegion ==
  /\ logCall'.outcome.kind = "return"
  /\ AppendedOne
  /\ LoggedMembers(NewEntry) = {"timestamp", "keywords", "region"}
  /\ NewEntry.timestamp = NowISO
  /\ NewEntry.keywords = logCall'.detectedKeywords
  /\ NewEntry.region = IF logCall'.region \in {Undefined, Key("")}
                       THEN Key("unknown") ELSE logCall'.region

\* C20, amended: logEmergencyDetection does not throw and writes exactly one
\* log entry, which holds only the time of the call, the keyword list it was
\* given and the region hint, 'unknown' when no region or an empty one is
\* supplied; nothing else is in the entry.
C20_LogsTimestampKeywordsAndRegion == [][C20_TimestampKeywordsAndRegion]_vars

\* A call without region logged 'unknown', a timestamp and its keywords
C20_Witness ==
  /\ logCall.kind = "call"
  /\ logCall.region = Undefined
  /\ logCall.detectedKeywords = <<EMERGENCY_KEYWORDS[2]>>
  /\ Len(consoleWarn) > 0
  /\ consoleWarn[Len(consoleWarn)].region = Key("unknown")
  /\ consoleWarn[Len(consoleWarn)].keywords = <<EMERGENCY_KEYWORDS[2]>>
  /\ "timestamp" \in DOMAIN consoleWarn[Len(consoleWarn)]

-----------------------------------------------------------------------------
(* Properties of concurrent invocations *)

\* What an invocation returns when it runs alone, from start to end, against
\* the salt and the table as they are
Alone(call) ==
  IF call.op = "aggregateSymptomsByRegion"
  THEN Return(AggregateLoop(<<>>, getSymptomsByRegion(table, call.pincode, call.date, call.date)))
  ELSE Outcome(call)

C21_StepLeavesSharedStateAlone ==
  /\ HASH_SALT' = HASH_SALT
  /\ table' = table
  /\ \A t \in TaskIds : tasks'[t].pc = "done" => tasks'[t].outcome = Alone(tasks'[t].call)

\* C21: in every interleaving of invocations of the five operations, each
\* finished invocation has the outcome it has when run alone, and no step
\* changes the salt or the table they read (the keyword table and the advisory
\* table are fixed values here: no operation assigns to them).
C21_NoSharedMutableState == [][C21_StepLeavesSharedStateAlone]_vars

\* Two aggregations finished, one of them overlapped by the other
C21_Witness ==
  /\ \A t \in TaskIds : tasks[t].pc = "done" /\ tasks[t].call.op = "aggregateSymptomsByRegion"
  /\ tasks[1].overlapped
  /\ tasks[1].call # tasks[2].call
  /\ tasks[1].outcome.value # <<>>
  /\ aggregateCall.kind = "call"
  /\ aggregateCall.date = tasks[1].call.date

RECURSIVE WeightedSum(_, _)
WeightedSum(answers, d) ==
  IF answers = <<>> THEN 0
  ELSE WeightedSum(SubSeq(answers, 1, Len(answers) - 1), d)
       + answers[Len(answers)].answer * answers[Len(answers)].doshaWeights[d]

RawOf(d) == WeightedSum(quizInput.answers, d)

\* The greatest raw score
MaxRaw == CHOOSE m \in {RawOf(d) : d \in Doshas} : \A d \in Doshas : RawOf(d) <= m

\* s is raw / max * 100 rounded to two decimals (half up), in hundredths
IsRound2OfRatio(s, raw, max) ==
  IF max > 0
  THEN 2 * max * s - max <= 2 * raw * 10000 /\ 2 * raw * 10000 < 2 * max * s + max
  ELSE 2 * max * s - max >= 2 * raw * 10000 /\ 2 * raw * 10000 > 2 * max * s + max

NormalizedByMax ==
  /\ MaxRaw # 0
  /\ \A d \in Doshas : IsRound2OfRatio(Profile.scores[d], RawOf(d), MaxRaw)
  /\ \A d \in Doshas : RawOf(d) = MaxRaw => Profile.scores[d] = 10000

C24_AllZeroIsEqualShare ==
  (Returned /\ \A d \in Doshas : RawOf(d) = 0) =>
    /\ Profile.scores = [vata |-> 3333, pitta |-> 3333, kapha |-> 3333]
    /\ Profile.dominant = Key("balanced")
    /\ Profile.secondary = Undefined

\* Two answers whose weights are all zero were scored
C24_Witness ==
  /\ Returned
  /\ Len(quizInput.answers) = 2
  /\ \A i \in 1..2 : \A d \in Doshas : quizInput.answers[i].doshaWeights[d] = 0
  /\ Profile.scores.vata = 3333

-----------------------------------------------------------------------------
(* Properties of anonymisation followed by validation *)

\* C25: validateAnonymization returns true for every record anonymizeForSentinel
\* returned, whatever personal fields the report carried and whatever the salt,
\* and the record's hashedUserId has the 64 characters of a hex digest.
C25_AnonymizedRecordIsValid ==
  validateCall # NoCall =>
    /\ validateCall.outcome = Return(Bool(TRUE))
    /\ "sha256" \in DOMAIN validateCall.data.hashedUserId
    /\ LengthOf(validateCall.data.hashedUserId) = Num(64)

\* The record of a report with all four personal fields, anonymised under the
\* fallback salt, was validated
C25_Witness ==
  /\ validateCall # NoCall
  /\ anonCall # NoCall
  /\ validateCall.data = anonCall.outcome.value
  /\ {"name", "phone", "email", "fullAddress"} \subseteq DOMAIN anonCall.report
  /\ anonCall.usedSalt = DEFAULT_SALT
  /\ validateCall.outcome.kind = "return"

-----------------------------------------------------------------------------
(* Properties of writes to the symptom table *)

\* C26: after any sequence of createSymptom and incrementSymptomCount calls
\* the table holds at most one item per (pincode, symptomType, date), and an
\* aggregate that follows a createSymptom, for its pincode and date, reports
\* for its symptom type the count of that createSymptom, whatever the table
\* held under the key before.
C26_CreateReplaces ==
  /\ \A i, j \in table : (i.PK = j.PK /\ i.SK = j.SK) => i = j
  /\ (/\ ledger.kind = "created"
      /\ aggregateCall.kind = "call"
      /\ aggregateCall.pincode = ledger.params.pincode
      /\ aggregateCall.date = ledger.params.date)
     => \E i \in 1..Len(aggregateCall.outcome) :
          aggregateCall.outcome[i] = <<ledger.params.symptomType, ledger.params.count>>

\* A createSymptom replaced an item of a higher count, and the aggregate that
\* followed was for its pincode and date
C26_Witness ==
  /\ ledger.kind = "created"
  /\ ledger.replacedHigher
  /\ aggregateCall.kind = "call"
  /\ aggregateCall.pincode = ledger.params.pincode
  /\ aggregateCall.date = ledger.params.date
  /\ Cardinality(table) = 2

\* The sum of the amounts of a list of calls; a call without amount adds 1
RECURSIVE SumOfAmounts(_)
SumOfAmounts(amounts) ==
  IF amounts = <<>> THEN 0
  ELSE (IF Head(amounts) = Undefined THEN 1 ELSE Head(amounts).v) + SumOfAmounts(Tail(amounts))

\* The items the table holds under the key of the created item
CreatedItems ==
  {i \in table : /\ i.PK = <<"REGION", ledger.params.pincode.s>>
                 /\ i.SK = <<"SYMPTOM", ledger.params.symptomType.s, ledger.params.date.s>>}

\* C27: when every incrementSymptomCount call made on an item created with
\* count c has been applied, in whatever order, the item's count is c plus the
\* sum of the amounts (1 for a call without amount), and an aggregate for its
\* pincode and date reports that value for its symptom type.
C27_NoIncrementLost ==
  (ledger.kind = "created" /\ "amounts" \in DOMAIN ledger /\ pending = <<>>) =>
    LET total == ledger.params.count.v + SumOfAmounts(ledger.amounts) IN
    /\ \E i \in CreatedItems : i.count = Num(total)
    /\ \A i \in CreatedItems : i.count = Num(total)
    /\ (/\ aggregateCall.kind = "call"
        /\ aggregateCall.pincode = ledger.params.pincode
        /\ aggregateCall.date = ledger.params.date)
       => aggregateCall.outcome = <<<<ledger.params.symptomType, Num(total)>>>>

\* Three calls with different amounts were in flight together and all were
\* applied, and the aggregate followed
C27_Witness ==
  /\ ledger.kind = "created"
  /\ "amounts" \in DOMAIN ledger
  /\ Len(ledger.amounts) = 3
  /\ Undefined \in {ledger.amounts[n] : n \in 1..3}
  /\ Num(2) \in {ledger.amounts[n] : n \in 1..3}
  /\ pending = <<>>
  /\ aggregateCall.kind = "call"
  /\ aggregateCall.pincode = ledger.params.pincode
  /\ aggregateCall.date = ledger.params.date

-----------------------------------------------------------------------------
(* Properties of the order of checks in the chat request handler *)

MissingOrEmpty(x) == x = Undefined \/ x = Str(<<>>)

\* The request just handled is answered with an error of this status and code,
\* carries no data, and nothing was written to console.warn for it
AnsweredWithError(status, code) ==
  /\ response'.status = status
  /\ response'.body.success = FALSE
  /\ response'.body.error.code = code
  /\ "data" \notin DOMAIN response'.body
  /\ consoleWarn' = consoleWarn

C28_StepChecksFieldsFirst ==
  /\ (request'.kind = "throw" \/ request'.value.t # "object")
       => AnsweredWithError(500, "INTERNAL_ERROR")
  /\ (/\ request'.kind = "return"
      /\ request'.value.t = "object"
      /\ MissingOrEmpty(request'.value.v.userId) \/ MissingOrEmpty(request'.value.v.query))
       => AnsweredWithError(400, "INVALID_REQUEST")

\* C28: a request whose userId or query is missing or empty is answered with
\* INVALID_REQUEST (400), with no advisory and no detection logged, also when
\* its query holds an emergency keyword; a request whose handling raises an
\* exception is answered with INTERNAL_ERROR (500).
C28_FieldCheckBeforeEmergencyCheck == [][C28_StepChecksFieldsFirst]_vars

\* A request without userId whose query holds an emergency keyword was
\* answered with 400, after an emergency had been logged for an earlier request
C28_Witness ==
  /\ request.kind = "return"
  /\ request.value.t = "object"
  /\ MissingOrEmpty(request.value.v.userId)
  /\ request.value.v.query = Str(<<"C", "h", "e", "s", "t", " ", "P", "a", "i", "n">>)
  /\ response.status = 400
  /\ Len(consoleWarn) = 1

-----------------------------------------------------------------------------
(* Properties of ties between scores *)

\* The fixed order of the doshas
DoshaOrder == <<"vata", "pitta", "kapha">>

HighestScore ==
  CHOOSE m \in {Profile.scores[d] : d \in Doshas} : \A d \in Doshas : Profile.scores[d] <= m

\* C29: in a returned profile that is not balanced, when two doshas share the
\* highest score the dominant is the one earlier in the order vata, pitta,
\* kapha and the secondary is the other; and when the two doshas below the
\* highest have equal scores there is no secondary.
C29_TiesInFixedOrder ==
  (Returned /\ Profile.dominant # Key("balanced")) =>
    /\ \A i, j \in 1..3 :
         (/\ i < j
          /\ Profile.scores[DoshaOrder[i]] = HighestScore
          /\ Profile.scores[DoshaOrder[j]] = HighestScore)
         => /\ Profile.dominant = Key(DoshaOrder[i])
            /\ Profile.secondary = Key(DoshaOrder[j])
    /\ \A d \in Doshas :
         (/\ Profile.scores[d] = HighestScore
          /\ \A e, f \in Doshas \ {d} : Profile.scores[e] = Profile.scores[f]
          /\ \A e \in Doshas \ {d} : Profile.scores[e] < HighestScore)
         => Profile.secondary = Undefined

\* vata and kapha shared the highest score, above pitta
C29_Witness ==
  /\ Returned
  /\ Profile.scores.vata = Profile.scores.kapha
  /\ Profile.scores.vata - Profile.scores.pitta > 1000
  /\ Profile.dominant = Key("vata")
  /\ Profile.secondary = Key("kapha")

-----------------------------------------------------------------------------
(* Properties of the stored assessments *)

\* The createPrakriti calls made for the user of the latest getLatestPrakriti
CallsForUser ==
  SelectSeq(ledger.calls, LAMBDA call : call.userId = profileCall.userId)

\* C30: after a single createPrakriti for a user, getLatestPrakriti returns
\* an entity under (USER#userId, PRAKRITI#timestamp) whose scores, dominant and
\* assessmentDate are the profile's and which has no secondary (and no other
\* member), also when the profile has a secondary.
C30_StoredWithoutSecondary ==
  (profileCall.kind = "call" /\ Len(CallsForUser) = 1) =>
    LET created == CallsForUser[1]
        entity == profileCall.outcome
    IN  /\ DOMAIN entity = {"PK", "SK", "scores", "dominant", "assessmentDate"}
        /\ entity.PK = <<"USER", created.userId.v>>
        /\ entity.SK = <<"PRAKRITI", created.now>>
        /\ entity.scores = created.profile.scores
        /\ entity.dominant = created.profile.dominant
        /\ entity.assessmentDate = created.profile.assessmentDate

\* A profile with a secondary was stored for a user, another user's after it,
\* and the first user's latest assessment was read
C30_Witness ==
  /\ profileCall.kind = "call"
  /\ Len(ledger.calls) = 2
  /\ Len(CallsForUser) = 1
  /\ ledger.calls[1].userId = profileCall.userId
  /\ ledger.calls[1].profile.secondary = Key("pitta")
  /\ profileCall.outcome.dominant = Key("vata")

====
